---- MODULE Spec2Model ----
(***************************************************************************)
(* kommando: the argument parser (parseArgs, parseFlag, findFlag,          *)
(* validateFlagValue), the Context accessors, App.AddCommand, App.Run with *)
(* its subcommand resolver, and the completion script generators, as a     *)
(* state machine.                                                          *)
(*                                                                         *)
(* A Go string is modelled as a sequence of one-character strings, so that *)
(* prefix tests, dash stripping, splitting on '=' and ',' and the strconv  *)
(* conversions are computed and not assumed.                               *)
(***************************************************************************)
EXTENDS Integers, Sequences, FiniteSets, TLC

VARIABLES
    cmd,           \* the Flags of the command handed to parseArgs
    raw,           \* the tokens handed to parseArgs
    allowUnknown,  \* parseArgs' allowUnknown parameter
    environ,       \* the process environment: variable name -> [set, val]
    i,             \* parseArgs: index of the next token (1-based)
    positional,    \* parseArgs: positional
    flags,         \* parseArgs: flags, a function whose DOMAIN is the key set
    stopFlags,     \* parseArgs: stopFlags
    pc,            \* parseArgs: "idle" before the call, then "scan", "defaults",
                   \* "required" or "done"
    err,           \* the error parseArgs returned, NoErr for nil
    app,           \* the App: commands, globalFlags, helpAdded, allowUnknownFlags
    call,          \* the call made on the App: AddCommand(command), Run(args) or
                   \* GenerateCompletion(shell)
    target,        \* Run: the local cmd, as the path of indices that leads to it
    cmdArgs,       \* Run: cmdArgs
    rpc,           \* Run: "entry", "resolve", "help", "dispatch", "parse",
                   \* "returned"; "direct" when parseArgs is called on its own
    output,        \* what the call has written to a.output, in order
    executed,      \* the Execute handlers the call invoked, each with its Context
    ret            \* the error the call returned

parserVars == <<cmd, raw, allowUnknown, environ, i, positional, flags, stopFlags, pc, err>>

appVars == <<app, call, target, cmdArgs, rpc, output, executed, ret>>

vars == <<parserVars, appVars>>

----------------------------------------------------------------------------
(* Bounds of the model.                                                    *)

\* longest token stream of the general specification
MaxLen == 3
\* longest token stream of the env/default/required specification
MaxEnvLen == 2
\* longest token stream of the value-form specification
MaxValLen == 2
\* longest token stream of the StringSlice specification
MaxSliceLen == 4

----------------------------------------------------------------------------
(* Strings.                                                                *)

\* the NUL byte that joins the elements of a FlagStringSlice value
sliceSep == "NUL"

Digits == {"0", "1", "2", "3", "4", "5", "6", "7", "8", "9"}

UpperChars == <<"A", "B", "C", "D", "E", "F", "G", "H", "I", "J", "K", "L", "M",
                "N", "O", "P", "Q", "R", "S", "T", "U", "V", "W", "X", "Y", "Z">>

LowerChars == <<"a", "b", "c", "d", "e", "f", "g", "h", "i", "j", "k", "l", "m",
                "n", "o", "p", "q", "r", "s", "t", "u", "v", "w", "x", "y", "z">>

\* unicode.ToLower on one ASCII character
LowerChar(c) ==
    IF \E k \in 1..Len(UpperChars) : UpperChars[k] = c
    THEN LowerChars[CHOOSE k \in 1..Len(UpperChars) : UpperChars[k] = c]
    ELSE c

\* strings.ToLower
ToLower(s) == [k \in 1..Len(s) |-> LowerChar(s[k])]

\* strings.HasPrefix
HasPrefix(s, p) == Len(s) >= Len(p) /\ SubSeq(s, 1, Len(p)) = p

\* s[k:] of Go, for a 0-based k
From(s, k) == SubSeq(s, k + 1, Len(s))

RECURSIVE TrimLeftDash(_)
\* strings.TrimLeft(s, "-")
TrimLeftDash(s) ==
    IF s # <<>> /\ s[1] = "-" THEN TrimLeftDash(Tail(s)) ELSE s

\* strings.IndexByte, 0-based, -1 when c does not occur
IndexByte(s, c) ==
    IF \E k \in 1..Len(s) : s[k] = c
    THEN (CHOOSE k \in 1..Len(s) : s[k] = c /\ \A j \in 1..(k - 1) : s[j] # c) - 1
    ELSE -1

\* allSameRune
allSameRune(s) ==
    IF Len(s) = 0 THEN FALSE
    ELSE \A k \in 2..Len(s) : s[k] = s[1]

\* a mutant of commaToSliceSep that leaves the commas in place
commaToSliceSep_Identity(s) == s

\* commaToSliceSep: strings.ReplaceAll(s, ",", sliceSep)
commaToSliceSep(s) == [k \in 1..Len(s) |-> IF s[k] = "," THEN sliceSep ELSE s[k]]

RECURSIVE SplitAcc(_, _, _, _)
SplitAcc(s, sep, cur, k) ==
    IF k > Len(s) THEN <<cur>>
    ELSE IF s[k] = sep THEN <<cur>> \o SplitAcc(s, sep, <<>>, k + 1)
    ELSE SplitAcc(s, sep, Append(cur, s[k]), k + 1)

\* strings.Split(s, sep) for a one-character sep: the empty string splits into
\* one empty element
Split(s, sep) == SplitAcc(s, sep, <<>>, 1)

----------------------------------------------------------------------------
(* strconv.                                                                *)

DigitChars == <<"0", "1", "2", "3", "4", "5", "6", "7", "8", "9">>

DigitVal(c) == (CHOOSE k \in 1..10 : DigitChars[k] = c) - 1

AllDigits(s) == s # <<>> /\ \A k \in 1..Len(s) : s[k] \in Digits

RECURSIVE StripZeros(_)
StripZeros(s) == IF Len(s) > 1 /\ s[1] = "0" THEN StripZeros(Tail(s)) ELSE s

RECURSIVE DigitsLeq(_, _)
\* a <= b for two digit strings of the same length
DigitsLeq(a, b) ==
    IF a = <<>> THEN TRUE
    ELSE IF DigitVal(a[1]) < DigitVal(b[1]) THEN TRUE
    ELSE IF DigitVal(a[1]) > DigitVal(b[1]) THEN FALSE
    ELSE DigitsLeq(Tail(a), Tail(b))

\* 1<<63 - 1 and 1<<63, the largest magnitudes of an int64
MaxInt64Digits ==
    <<"9", "2", "2", "3", "3", "7", "2", "0", "3", "6", "8", "5", "4", "7", "7", "5", "8", "0", "7">>

MinInt64Digits ==
    <<"9", "2", "2", "3", "3", "7", "2", "0", "3", "6", "8", "5", "4", "7", "7", "5", "8", "0", "8">>

\* strconv.ParseInt(s, 10, 64) returns no error: an optional sign, at least
\* one decimal digit, and a value that fits an int64
ParseIntOK(s) ==
    LET signed == s # <<>> /\ s[1] \in {"+", "-"}
        neg    == s # <<>> /\ s[1] = "-"
        body   == IF signed THEN Tail(s) ELSE s
        mag    == StripZeros(body)
        limit  == IF neg THEN MinInt64Digits ELSE MaxInt64Digits
    IN  /\ AllDigits(body)
        /\ \/ Len(mag) < Len(limit)
           \/ Len(mag) = Len(limit) /\ DigitsLeq(mag, limit)

\* strconv.ParseBool returns no error
ParseBoolOK(s) ==
    s \in { <<"1">>, <<"t">>, <<"T">>, <<"T", "R", "U", "E">>, <<"t", "r", "u", "e">>,
            <<"T", "r", "u", "e">>, <<"0">>, <<"f">>, <<"F">>,
            <<"F", "A", "L", "S", "E">>, <<"f", "a", "l", "s", "e">>,
            <<"F", "a", "l", "s", "e">> }

\* the decimal mantissa of a float: digits with at most one '.', at least one digit
MantissaOK(s) ==
    /\ \E k \in 1..Len(s) : s[k] \in Digits
    /\ \A k \in 1..Len(s) : s[k] \in Digits \cup {"."}
    /\ Cardinality({k \in 1..Len(s) : s[k] = "."}) <= 1

\* the exponent of a float after 'e': an optional sign and at least one digit
ExponentOK(s) ==
    LET body == IF s # <<>> /\ s[1] \in {"+", "-"} THEN Tail(s) ELSE s
    IN  AllDigits(body)

\* strconv.ParseFloat(s, 64) returns no error, for decimal text whose value is
\* in the range of a float64: "inf", "infinity" (signed or not) and "nan" in
\* any case, or a decimal mantissa with an optional exponent.  (The
\* hexadecimal and the digit-separator forms need 'x' after a leading 0, or
\* '_'; no token of the model has them.)
ParseFloatOK(s) ==
    LET signed == s # <<>> /\ s[1] \in {"+", "-"}
        body   == IF signed THEN Tail(s) ELSE s
        low    == ToLower(body)
        e      == IndexByte(low, "e")
    IN  \/ low \in { <<"i", "n", "f">>, <<"i", "n", "f", "i", "n", "i", "t", "y">> }
        \/ ~signed /\ low = <<"n", "a", "n">>
        \/ e < 0 /\ MantissaOK(body)
        \/ e >= 0 /\ MantissaOK(SubSeq(body, 1, e)) /\ ExponentOK(From(body, e + 1))

RECURSIVE Itoa(_)
\* strconv.Itoa
Itoa(n) ==
    IF n < 0 THEN <<"-">> \o Itoa(0 - n)
    ELSE IF n < 10 THEN <<DigitChars[n + 1]>>
    ELSE Itoa(n \div 10) \o <<DigitChars[(n % 10) + 1]>>

RECURSIVE DigitsToNat(_, _)
DigitsToNat(s, acc) ==
    IF s = <<>> THEN acc ELSE DigitsToNat(Tail(s), acc * 10 + DigitVal(s[1]))

\* n, _ := strconv.Atoi(s): the value, and 0 when s is no integer
Atoi(s) ==
    LET neg  == s # <<>> /\ s[1] = "-"
        body == IF s # <<>> /\ s[1] \in {"+", "-"} THEN Tail(s) ELSE s
    IN  IF ~AllDigits(body) THEN 0
        ELSE IF neg THEN 0 - DigitsToNat(body, 0)
        ELSE DigitsToNat(body, 0)

RECURSIVE EqualFold(_, _)
\* whether two texts are equal when the case of the letters is ignored
EqualFold(a, b) ==
    IF a = <<>> \/ b = <<>> THEN a = b
    ELSE /\ \/ a[1] = b[1]
            \/ \E k \in 1..Len(UpperChars) :
                   {a[1], b[1]} = {UpperChars[k], LowerChars[k]}
         /\ EqualFold(Tail(a), Tail(b))

----------------------------------------------------------------------------
(* Flags, errors and the flag map.                                         *)

FlagTypes == {"FlagString", "FlagBool", "FlagInt", "FlagFloat", "FlagStringSlice", "FlagCount"}

\* Flag.Short = 0: no short character
NoShort == ""

\* Flag.Env = "": no environment variable
NoEnv == ""

\* a nil error
NoErr == [kind |-> "nil", flag |-> <<>>, value |-> <<>>, detail |-> ""]

\* fmt.Errorf("%w: ...", sentinel, ...): the sentinel, the flag the text names,
\* the literal the text quotes, and the wording
Errorf(kind, flag, value, detail) ==
    [kind |-> kind, flag |-> flag, value |-> value, detail |-> detail]

\* make(map[string]string)
EmptyMap == [k \in {} |-> <<>>]

\* _, ok := m[k]
Has(m, k) == k \in DOMAIN m

\* m[k] = v
Put(m, k, v) == [x \in (DOMAIN m) \cup {k} |-> IF x = k THEN v ELSE m[x]]

\* os.LookupEnv
LookupEnv(env, name) ==
    IF name \in DOMAIN env THEN env[name] ELSE [set |-> FALSE, val |-> <<>>]

\* a mutant of validateFlagValue that accepts every value
validateFlagValue_NoCheck(f, value) == NoErr

\* validateFlagValue
validateFlagValue(f, value) ==
    CASE f.Type = "FlagBool" ->
            IF ParseBoolOK(value) THEN NoErr
            ELSE Errorf("InvalidFlagValue", f.Name, value, "expected bool")
      [] f.Type = "FlagInt" ->
            IF ParseIntOK(value) THEN NoErr
            ELSE Errorf("InvalidFlagValue", f.Name, value, "expected int")
      [] f.Type = "FlagFloat" ->
            IF ParseFloatOK(value) THEN NoErr
            ELSE Errorf("InvalidFlagValue", f.Name, value, "expected float")
      [] OTHER -> NoErr

\* findFlag: the index in fl of the first flag whose Name is name, or whose
\* Short is the one character of name; 0 for nil
findFlag(fl, name) ==
    LET hit(k) == \/ fl[k].Name = name
                  \/ fl[k].Short # NoShort /\ Len(name) = 1 /\ name[1] = fl[k].Short
    IN  IF \E k \in 1..Len(fl) : hit(k)
        THEN CHOOSE k \in 1..Len(fl) : hit(k) /\ \A j \in 1..(k - 1) : ~hit(j)
        ELSE 0

----------------------------------------------------------------------------
(* parseFlag.                                                              *)

\* what parseFlag returns: name, value, consumed, the index of the matched
\* flag (0 for nil) and the error
FlagResult(name, value, consumed, f, e) ==
    [name |-> name, value |-> value, consumed |-> consumed, f |-> f, err |-> e]

FlagError(e) == FlagResult(<<>>, <<>>, 0, 0, e)

\* a mutant of isMalformed that asks for four dashes
isMalformed_FourDashes(arg) == HasPrefix(arg, <<"-", "-", "-", "-">>)

\* strings.HasPrefix(arg, "---")
isMalformed(arg) == HasPrefix(arg, <<"-", "-", "-">>)

\* a mutant of eqValue that keeps the '=' in the value
eqValue_KeepEq(name, eqIdx) == From(name, eqIdx)

\* flagValue := name[eqIdx+1:]
eqValue(name, eqIdx) == From(name, eqIdx + 1)

\* a mutant of unknownRejected that lets every unknown flag through
unknownRejected_Never(f, allow) == FALSE

\* f == nil && !allowUnknown, for the index f that findFlag returned
unknownRejected(f, allow) == f = 0 /\ ~allow

\* the texts the Bool lookahead takes for a value
boolLike == { <<"t", "r", "u", "e">>, <<"f", "a", "l", "s", "e">>, <<"1">>, <<"0">> }

\* a mutant of looksBool that compares without lowering the case
looksBool_CaseSensitive(tok) == tok \in boolLike

\* next := strings.ToLower(raw[i+1]); next == "true" || ... || next == "0"
looksBool(tok) == ToLower(tok) \in boolLike

\* the --flag=value branch of parseFlag; eqIdx is 0-based
parseFlagEq(fl, name, eqIdx, allow) ==
    LET flagName  == SubSeq(name, 1, eqIdx)
        flagValue == eqValue(name, eqIdx)
        f         == findFlag(fl, flagName)
    IN  IF f = 0
        THEN IF unknownRejected(f, allow)
             THEN FlagError(Errorf("UnknownFlag", flagName, <<>>, ""))
             ELSE FlagResult(flagName, flagValue, 1, 0, NoErr)
        ELSE IF fl[f].Type = "FlagStringSlice"
        THEN FlagResult(fl[f].Name, commaToSliceSep(flagValue), 1, f, NoErr)
        ELSE IF validateFlagValue(fl[f], flagValue) # NoErr
        THEN FlagError(validateFlagValue(fl[f], flagValue))
        ELSE FlagResult(fl[f].Name, flagValue, 1, f, NoErr)

\* a mutant of parseFlagBare that takes no token with a leading dash for a
\* value
parseFlagBare_StopAtDash(fl, tokens, k, name, allow) ==
    LET f        == findFlag(fl, name)
        cf       == IF Len(name) > 1 THEN findFlag(fl, <<name[1]>>) ELSE 0
        hasNext  == k + 1 <= Len(tokens) /\ ~HasPrefix(tokens[k + 1], <<"-">>)
    IN  IF f = 0 /\ Len(name) > 1 /\ allSameRune(name) /\ cf # 0 /\ fl[cf].Type = "FlagCount"
        THEN FlagResult(fl[cf].Name, Itoa(Len(name)), 1, cf, NoErr)
        ELSE IF unknownRejected(f, allow)
        THEN FlagError(Errorf("UnknownFlag", name, <<>>, ""))
        ELSE IF f # 0 /\ fl[f].Type = "FlagBool"
        THEN IF hasNext /\ looksBool(tokens[k + 1])
             THEN FlagResult(fl[f].Name, tokens[k + 1], 2, f, NoErr)
             ELSE FlagResult(fl[f].Name, <<"t", "r", "u", "e">>, 1, f, NoErr)
        ELSE IF f # 0 /\ fl[f].Type = "FlagCount"
        THEN FlagResult(fl[f].Name, <<"1">>, 1, f, NoErr)
        ELSE IF ~hasNext
        THEN FlagError(Errorf("InvalidFlagValue", name, <<>>, "requires a value"))
        ELSE IF f # 0
        THEN IF fl[f].Type = "FlagStringSlice"
             THEN FlagResult(fl[f].Name, commaToSliceSep(tokens[k + 1]), 2, f, NoErr)
             ELSE IF validateFlagValue(fl[f], tokens[k + 1]) # NoErr
             THEN FlagError(validateFlagValue(fl[f], tokens[k + 1]))
             ELSE FlagResult(fl[f].Name, tokens[k + 1], 2, f, NoErr)
        ELSE FlagResult(name, tokens[k + 1], 2, 0, NoErr)

\* the bare-name branches of parseFlag, for the token at 1-based index k
parseFlagBare(fl, tokens, k, name, allow) ==
    LET f        == findFlag(fl, name)
        cf       == IF Len(name) > 1 THEN findFlag(fl, <<name[1]>>) ELSE 0
        hasNext  == k + 1 <= Len(tokens)
    IN  IF f = 0 /\ Len(name) > 1 /\ allSameRune(name) /\ cf # 0 /\ fl[cf].Type = "FlagCount"
        THEN FlagResult(fl[cf].Name, Itoa(Len(name)), 1, cf, NoErr)
        ELSE IF unknownRejected(f, allow)
        THEN FlagError(Errorf("UnknownFlag", name, <<>>, ""))
        ELSE IF f # 0 /\ fl[f].Type = "FlagBool"
        THEN IF hasNext /\ looksBool(tokens[k + 1])
             THEN FlagResult(fl[f].Name, tokens[k + 1], 2, f, NoErr)
             ELSE FlagResult(fl[f].Name, <<"t", "r", "u", "e">>, 1, f, NoErr)
        ELSE IF f # 0 /\ fl[f].Type = "FlagCount"
        THEN FlagResult(fl[f].Name, <<"1">>, 1, f, NoErr)
        ELSE IF ~hasNext
        THEN FlagError(Errorf("InvalidFlagValue", name, <<>>, "requires a value"))
        ELSE IF f # 0
        THEN IF fl[f].Type = "FlagStringSlice"
             THEN FlagResult(fl[f].Name, commaToSliceSep(tokens[k + 1]), 2, f, NoErr)
             ELSE IF validateFlagValue(fl[f], tokens[k + 1]) # NoErr
             THEN FlagError(validateFlagValue(fl[f], tokens[k + 1]))
             ELSE FlagResult(fl[f].Name, tokens[k + 1], 2, f, NoErr)
        ELSE FlagResult(name, tokens[k + 1], 2, 0, NoErr)

\* parseFlag(cmd, raw, i, allowUnknown), for the token at 1-based index k
parseFlag(fl, tokens, k, allow) ==
    LET arg   == tokens[k]
        name  == TrimLeftDash(arg)
        eqIdx == IndexByte(name, "=")
    IN  IF isMalformed(arg)
        THEN FlagError(Errorf("InvalidFlagValue", <<>>, arg, "malformed"))
        ELSE IF eqIdx >= 0
        THEN parseFlagEq(fl, name, eqIdx, allow)
        ELSE parseFlagBare(fl, tokens, k, name, allow)

----------------------------------------------------------------------------
(* parseArgs, as steps over its local state                                *)
(* [i, positional, flags, stopFlags, pc, err].                             *)

\* the locals of parseArgs on entry
Start ==
    [i |-> 1, positional |-> <<>>, flags |-> EmptyMap, stopFlags |-> FALSE,
     pc |-> "scan", err |-> NoErr]

\* a mutant of Failed that returns what was collected so far with the error
Failed_KeepPartial(s, e) == [s EXCEPT !.pc = "done", !.err = e]

\* return nil, nil, err
Failed(s, e) ==
    [s EXCEPT !.positional = <<>>, !.flags = EmptyMap, !.pc = "done", !.err = e]

\* a mutant of storeFlag that overwrites instead of accumulating
storeFlag_Overwrite(fl, m, r) == Put(m, r.name, r.value)

\* the switch of parseArgs that stores one parsed flag r
storeFlag(fl, m, r) ==
    IF r.f # 0 /\ fl[r.f].Type = "FlagStringSlice"
    THEN IF Has(m, r.name)
         THEN Put(m, r.name, m[r.name] \o <<sliceSep>> \o r.value)
         ELSE Put(m, r.name, r.value)
    ELSE IF r.f # 0 /\ fl[r.f].Type = "FlagCount"
    THEN LET prev == IF Has(m, r.name) THEN Atoi(m[r.name]) ELSE 0
         IN  Put(m, r.name, Itoa(prev + Atoi(r.value)))
    ELSE Put(m, r.name, r.value)

\* one iteration of the token loop on a bare "--"
scanSeparator(s) == [s EXCEPT !.stopFlags = TRUE, !.i = s.i + 1]

\* one iteration of the token loop on a positional token
scanPositional(tokens, s) ==
    [s EXCEPT !.positional = Append(s.positional, tokens[s.i]), !.i = s.i + 1]

\* one iteration of the token loop on a flag token
scanFlag(fl, tokens, allow, s) ==
    LET r == parseFlag(fl, tokens, s.i, allow)
    IN  IF r.err # NoErr THEN Failed(s, r.err)
        ELSE [s EXCEPT !.flags = storeFlag(fl, s.flags, r), !.i = s.i + r.consumed]

\* which branch the token loop takes on tokens[s.i]
IsSeparator(tokens, s) == tokens[s.i] = <<"-", "-">>

IsPositional(tokens, s) ==
    /\ ~IsSeparator(tokens, s)
    /\ (s.stopFlags \/ ~HasPrefix(tokens[s.i], <<"-">>))

scanStep(fl, tokens, allow, s) ==
    IF IsSeparator(tokens, s) THEN scanSeparator(s)
    ELSE IF IsPositional(tokens, s) THEN scanPositional(tokens, s)
    ELSE scanFlag(fl, tokens, allow, s)

\* a mutant of envApplies that lets the environment override the command line
envApplies_IgnoreCLI(f, m, e) == f.Env # NoEnv /\ e.set

\* whether the environment value e is adopted for flag f, given the map m
envApplies(f, m, e) == ~Has(m, f.Name) /\ f.Env # NoEnv /\ e.set

RECURSIVE envLoop(_, _, _, _)
\* the loop over cmd.Flags that applies environment variables, from flag k on
envLoop(fl, env, k, s) ==
    IF k > Len(fl) THEN [s EXCEPT !.pc = "defaults"]
    ELSE LET f == fl[k]
             e == LookupEnv(env, f.Env)
         IN  IF envApplies(f, s.flags, e)
             THEN IF validateFlagValue(f, e.val) # NoErr
                  THEN Failed(s, validateFlagValue(f, e.val))
                  ELSE envLoop(fl, env, k + 1,
                         [s EXCEPT !.flags = Put(s.flags, f.Name,
                             IF f.Type = "FlagStringSlice" THEN commaToSliceSep(e.val)
                             ELSE e.val)])
             ELSE envLoop(fl, env, k + 1, s)

applyEnv(fl, env, s) == envLoop(fl, env, 1, s)

RECURSIVE defaultLoop(_, _, _)
\* the loop over cmd.Flags that applies defaults, from flag k on
defaultLoop(fl, k, s) ==
    IF k > Len(fl) THEN [s EXCEPT !.pc = "required"]
    ELSE LET f == fl[k]
         IN  IF ~Has(s.flags, f.Name) /\ f.Default # <<>>
             THEN defaultLoop(fl, k + 1,
                    [s EXCEPT !.flags = Put(s.flags, f.Name,
                        IF f.Type = "FlagStringSlice" THEN commaToSliceSep(f.Default)
                        ELSE f.Default)])
             ELSE defaultLoop(fl, k + 1, s)

applyDefaults(fl, s) == defaultLoop(fl, 1, s)

\* a mutant of checkRequired that never fails
checkRequired_Skip(fl, s) == [s EXCEPT !.pc = "done"]

\* the loop over cmd.Flags that checks required flags, and the final return
checkRequired(fl, s) ==
    LET missing(k) == fl[k].Required /\ ~Has(s.flags, fl[k].Name)
    IN  IF \E k \in 1..Len(fl) : missing(k)
        THEN LET k == CHOOSE k \in 1..Len(fl) : missing(k) /\ \A j \in 1..(k - 1) : ~missing(j)
             IN  Failed(s, Errorf("RequiredFlag", fl[k].Name, <<>>, ""))
        ELSE [s EXCEPT !.pc = "done"]

RECURSIVE scanLoop(_, _, _, _)
scanLoop(fl, tokens, allow, s) ==
    IF s.pc # "scan" \/ s.i > Len(tokens) THEN s
    ELSE scanLoop(fl, tokens, allow, scanStep(fl, tokens, allow, s))

\* parseArgs(cmd, raw, allowUnknown) as a function of its arguments and of the
\* environment: its locals at the return
parseArgs(fl, tokens, allow, env) ==
    LET s1 == scanLoop(fl, tokens, allow, Start)
        s2 == IF s1.pc = "scan" THEN applyEnv(fl, env, s1) ELSE s1
        s3 == IF s2.pc = "defaults" THEN applyDefaults(fl, s2) ELSE s2
    IN  IF s3.pc = "required" THEN checkRequired(fl, s3) ELSE s3

----------------------------------------------------------------------------
(* Context accessors.                                                      *)

\* Context.StringSlice: the elements and whether the flag was set
StringSlice(m, name) ==
    IF ~Has(m, name) THEN [val |-> <<>>, ok |-> FALSE]
    ELSE [val |-> Split(m[name], sliceSep), ok |-> TRUE]

\* Context.Count
Count(m, name) == IF ~Has(m, name) THEN 0 ELSE Atoi(m[name])

\* Context.String
String(m, name) ==
    IF ~Has(m, name) THEN [val |-> <<>>, ok |-> FALSE] ELSE [val |-> m[name], ok |-> TRUE]

----------------------------------------------------------------------------
(* The state machine of one parseArgs call.                                *)

Cur ==
    [i |-> i, positional |-> positional, flags |-> flags, stopFlags |-> stopFlags,
     pc |-> pc, err |-> err]

Become(s) ==
    /\ i' = s.i
    /\ positional' = s.positional
    /\ flags' = s.flags
    /\ stopFlags' = s.stopFlags
    /\ pc' = s.pc
    /\ err' = s.err
    /\ UNCHANGED <<cmd, raw, allowUnknown, environ>>
    /\ UNCHANGED appVars

InLoop == pc = "scan" /\ i <= Len(raw)

ScanSeparator ==
    /\ InLoop
    /\ IsSeparator(raw, Cur)
    /\ Become(scanSeparator(Cur))

ScanPositional ==
    /\ InLoop
    /\ IsPositional(raw, Cur)
    /\ Become(scanPositional(raw, Cur))

ScanFlag ==
    /\ InLoop
    /\ ~IsSeparator(raw, Cur)
    /\ ~IsPositional(raw, Cur)
    /\ Become(scanFlag(cmd, raw, allowUnknown, Cur))

ApplyEnv ==
    /\ pc = "scan"
    /\ i > Len(raw)
    /\ Become(applyEnv(cmd, environ, Cur))

ApplyDefaults ==
    /\ pc = "defaults"
    /\ Become(applyDefaults(cmd, Cur))

CheckRequired ==
    /\ pc = "required"
    /\ Become(checkRequired(cmd, Cur))

Next ==
    \/ ScanSeparator
    \/ ScanPositional
    \/ ScanFlag
    \/ ApplyEnv
    \/ ApplyDefaults
    \/ CheckRequired

----------------------------------------------------------------------------
(* The command tree and the App.                                           *)

\* a Flag with the fields the parser and the generators read
Flag(name, short, type) ==
    [Name |-> name, Short |-> short, Type |-> type, Required |-> FALSE,
     Default |-> <<>>, Env |-> NoEnv]

\* a Command; Execute is "nil", "user" for a handler of the application, or
\* "help" / "completion" for the closures ensureHelp installs
Command(name, aliases, fl, subs, exec) ==
    [Name |-> name, Aliases |-> aliases, Flags |-> fl, SubCommands |-> subs,
     Execute |-> exec]

\* Command.hasAlias
hasAlias(c, name) == \E k \in 1..Len(c.Aliases) : c.Aliases[k] = name

\* a mutant of findIn that does not look at the aliases
findIn_NamesOnly(cmds, name) ==
    LET hit(k) == cmds[k].Name = name
    IN  IF \E k \in 1..Len(cmds) : hit(k)
        THEN CHOOSE k \in 1..Len(cmds) : hit(k) /\ \A j \in 1..(k - 1) : ~hit(j)
        ELSE 0

\* the loop of findCommand and of findSubCommand: the index in cmds of the
\* first command whose Name or one of whose Aliases is name, 0 for nil
findIn(cmds, name) ==
    LET hit(k) == cmds[k].Name = name \/ hasAlias(cmds[k], name)
    IN  IF \E k \in 1..Len(cmds) : hit(k)
        THEN CHOOSE k \in 1..Len(cmds) : hit(k) /\ \A j \in 1..(k - 1) : ~hit(j)
        ELSE 0

\* App.findCommand
findCommand(a, name) == findIn(a.commands, name)

\* Command.findSubCommand
findSubCommand(c, name) == findIn(c.SubCommands, name)

RECURSIVE NodeAt(_, _)
\* the command a path of indices leads to, from the list cmds
NodeAt(cmds, path) ==
    IF Len(path) = 1 THEN cmds[path[1]]
    ELSE NodeAt(cmds[path[1]].SubCommands, Tail(path))

\* the built-in commands
nHelp == <<"h", "e", "l", "p">>

nCompletion == <<"c", "o", "m", "p", "l", "e", "t", "i", "o", "n">>

helpCommand == Command(nHelp, <<>>, <<>>, <<>>, "help")

completionCommand == Command(nCompletion, <<>>, <<>>, <<>>, "completion")

\* a mutant of ensureHelp that forgets the helpAdded test
ensureHelp_Always(a) ==
    [a EXCEPT !.helpAdded = TRUE,
              !.commands = a.commands \o <<helpCommand, completionCommand>>]

\* App.ensureHelp
ensureHelp(a) ==
    IF a.helpAdded THEN a
    ELSE [a EXCEPT !.helpAdded = TRUE,
                   !.commands = a.commands \o <<helpCommand, completionCommand>>]

\* a mutant of addCommand without the loop over the registered commands
addCommand_NoDuplicateCheck(a, c) ==
    IF c.Name = <<>>
    THEN [app |-> a, err |-> Errorf("InvalidName", <<>>, <<>>, "command name cannot be empty")]
    ELSE IF \E k \in 1..Len(c.Flags) : c.Flags[k].Name = <<>>
    THEN [app |-> a, err |-> Errorf("InvalidName", <<>>, c.Name, "flag name cannot be empty")]
    ELSE [app |-> [a EXCEPT !.commands = Append(a.commands, c)], err |-> NoErr]

\* App.AddCommand: the App after the call and the error returned
addCommand(a, c) ==
    IF c.Name = <<>>
    THEN [app |-> a, err |-> Errorf("InvalidName", <<>>, <<>>, "command name cannot be empty")]
    ELSE IF \E k \in 1..Len(c.Flags) : c.Flags[k].Name = <<>>
    THEN [app |-> a, err |-> Errorf("InvalidName", <<>>, c.Name, "flag name cannot be empty")]
    ELSE IF \E k \in 1..Len(a.commands) : a.commands[k].Name = c.Name
    THEN [app |-> a, err |-> Errorf("DuplicateCommand", <<>>, c.Name, "")]
    ELSE [app |-> [a EXCEPT !.commands = Append(a.commands, c)], err |-> NoErr]

RECURSIVE Filter(_, _)
\* the elements of a sequence whose keep flag is set, in order
Filter(seq, keep) ==
    IF seq = <<>> THEN <<>>
    ELSE (IF keep[1] THEN <<seq[1]>> ELSE <<>>) \o Filter(Tail(seq), Tail(keep))

\* a mutant of mergeGlobalFlags that appends every global flag
mergeGlobalFlags_NoShadow(a, c) == c.Flags \o a.globalFlags

\* App.mergeGlobalFlags: the Flags of the merged command
mergeGlobalFlags(a, c) ==
    IF Len(a.globalFlags) = 0 THEN c.Flags
    ELSE c.Flags \o Filter(a.globalFlags,
                           [k \in 1..Len(a.globalFlags) |->
                               findFlag(c.Flags, a.globalFlags[k].Name) = 0])

----------------------------------------------------------------------------
(* Completion scripts.  A script is modelled by the entries the generator  *)
(* writes into the fixed text of each shell; the command and flag names    *)
(* are texts of letters, which %q and the quotes of the shells leave as    *)
(* they are.                                                               *)

\* the Shell constants
Bash == <<"b", "a", "s", "h">>

Zsh == <<"z", "s", "h">>

Fish == <<"f", "i", "s", "h">>

PowerShell == <<"p", "o", "w", "e", "r", "s", "h", "e", "l", "l">>

RECURSIVE Join(_, _)
\* strings.Join
Join(elems, sep) ==
    IF elems = <<>> THEN <<>>
    ELSE IF Len(elems) = 1 THEN elems[1]
    ELSE elems[1] \o sep \o Join(Tail(elems), sep)

\* the words of a text, as a shell splits it on spaces
Fields(s) == SelectSeq(Split(s, " "), LAMBDA w : w # <<>>)

\* the root of the canonical paths
ROOT == <<"R", "O", "O", "T">>

\* prefix + "/" + name
Slash(prefix, name) == prefix \o <<"/">> \o name

RECURSIVE Flatten(_)
\* the concatenation of a sequence of sequences
Flatten(ss) == IF ss = <<>> THEN <<>> ELSE ss[1] \o Flatten(Tail(ss))

\* a mutant of completionFlagList that leaves the global flags out
completionFlagList_OwnOnly(a, cmdFlags) == cmdFlags

\* App.completionFlagList
completionFlagList(a, cmdFlags) ==
    LET seen == { cmdFlags[k].Name : k \in 1..Len(cmdFlags) }
    IN  cmdFlags \o Filter(a.globalFlags,
                           [k \in 1..Len(a.globalFlags) |->
                               a.globalFlags[k].Name \notin seen])

\* a mutant of flagOptions that gives the long form only
flagOptions_LongOnly(f) == << <<"-", "-">> \o f.Name >>

\* the body of the loop of completionFlagNames: --name, and -x when the flag
\* has a short character
flagOptions(f) ==
    IF f.Short # NoShort
    THEN << <<"-", "-">> \o f.Name, <<"-", f.Short>> >>
    ELSE << <<"-", "-">> \o f.Name >>

\* App.completionFlagNames
completionFlagNames(a, cmdFlags) ==
    LET fl == completionFlagList(a, cmdFlags)
    IN  Flatten([k \in 1..Len(fl) |-> flagOptions(fl[k])])

\* a mutant of childWords that leaves the aliases out
childWords_NamesOnly(subs) == [k \in 1..Len(subs) |-> subs[k].Name]

\* the loop over subs that the Bash, Zsh and PowerShell generators share: each
\* child's name followed by its aliases
childWords(subs) == Flatten([k \in 1..Len(subs) |-> <<subs[k].Name>> \o subs[k].Aliases])

RECURSIVE bashResolverEntries(_, _)
\* App.bashResolverEntries: one case entry per command, its subtree after it
bashResolverEntries(cmds, prefix) ==
    Flatten([k \in 1..Len(cmds) |->
        LET canonical == Slash(prefix, cmds[k].Name)
            patterns  == <<canonical>> \o
                         [j \in 1..Len(cmds[k].Aliases) |-> Slash(prefix, cmds[k].Aliases[j])]
        IN  << [patterns |-> patterns, path |-> canonical] >> \o
            (IF Len(cmds[k].SubCommands) > 0
             THEN bashResolverEntries(cmds[k].SubCommands, canonical)
             ELSE <<>>)])

\* App.bashCompletionEntry
bashCompletionEntry(a, path, subs, cmdFlags) ==
    LET opts == childWords(subs) \o completionFlagNames(a, cmdFlags)
    IN  IF Len(opts) > 0 THEN << [path |-> path, opts |-> Join(opts, <<" ">>)] >> ELSE <<>>

RECURSIVE bashCompletionTree(_, _, _)
\* App.bashCompletionTree
bashCompletionTree(a, cmds, prefix) ==
    Flatten([k \in 1..Len(cmds) |->
        LET path == Slash(prefix, cmds[k].Name)
        IN  bashCompletionEntry(a, path, cmds[k].SubCommands, cmds[k].Flags) \o
            (IF Len(cmds[k].SubCommands) > 0
             THEN bashCompletionTree(a, cmds[k].SubCommands, path)
             ELSE <<>>)])

\* App.generateBash: the entries of the resolver case and of the completion case
generateBash(a) ==
    [shell |-> Bash,
     resolver |-> bashResolverEntries(a.commands, ROOT),
     completions |-> bashCompletionEntry(a, ROOT, a.commands, <<>>) \o
                     bashCompletionTree(a, a.commands, ROOT)]

\* App.poshCompletionEntry
poshCompletionEntry(a, path, subs, cmdFlags) ==
    LET items == childWords(subs) \o completionFlagNames(a, cmdFlags)
    IN  IF Len(items) > 0 THEN << [path |-> path, items |-> items] >> ELSE <<>>

RECURSIVE poshCompletionTree(_, _, _)
\* App.poshCompletionTree
poshCompletionTree(a, cmds, prefix) ==
    Flatten([k \in 1..Len(cmds) |->
        LET path == Slash(prefix, cmds[k].Name)
        IN  poshCompletionEntry(a, path, cmds[k].SubCommands, cmds[k].Flags) \o
            (IF Len(cmds[k].SubCommands) > 0
             THEN poshCompletionTree(a, cmds[k].SubCommands, path)
             ELSE <<>>)])

RECURSIVE poshResolverEntries(_, _)
\* App.poshResolverEntries: prefix/alias = canonical, for every alias
poshResolverEntries(cmds, prefix) ==
    Flatten([k \in 1..Len(cmds) |->
        LET canonical == Slash(prefix, cmds[k].Name)
        IN  [j \in 1..Len(cmds[k].Aliases) |->
                [key |-> Slash(prefix, cmds[k].Aliases[j]), val |-> canonical]] \o
            (IF Len(cmds[k].SubCommands) > 0
             THEN poshResolverEntries(cmds[k].SubCommands, canonical)
             ELSE <<>>)])

\* App.generatePowerShell: the $completions and $resolve tables
generatePowerShell(a) ==
    [shell |-> PowerShell,
     completions |-> poshCompletionEntry(a, ROOT, a.commands, <<>>) \o
                     poshCompletionTree(a, a.commands, ROOT),
     resolve |-> poshResolverEntries(a.commands, ROOT)]

\* the '--%s[%s]' lines of zshCommandFunc: the long form of every flag
zshFlagSpecs(fl) == [k \in 1..Len(fl) |-> <<"-", "-">> \o fl[k].Name]

\* funcName + "__" + sub.Name
zshChildFunc(funcName, sub) == funcName \o <<"_", "_">> \o sub.Name

RECURSIVE zshCommandFunc(_, _, _, _)
\* App.zshCommandFunc: the function of one node, then those of its subtree.
\* A function holds the flags given to _arguments, the words of the commands
\* array and the entries of the case that routes ${line[1]}
zshCommandFunc(a, funcName, subs, cmdFlags) ==
    LET fl == completionFlagList(a, cmdFlags)
        fn == IF Len(subs) > 0
              THEN [name |-> funcName,
                    flags |-> zshFlagSpecs(fl),
                    commands |-> childWords(subs),
                    routes |-> [k \in 1..Len(subs) |->
                                  [names |-> <<subs[k].Name>> \o subs[k].Aliases,
                                   func |-> zshChildFunc(funcName, subs[k])]]]
              ELSE [name |-> funcName,
                    flags |-> zshFlagSpecs(fl),
                    commands |-> <<>>,
                    routes |-> <<>>]
    IN  <<fn>> \o
        Flatten([k \in 1..Len(subs) |->
            zshCommandFunc(a, zshChildFunc(funcName, subs[k]),
                           subs[k].SubCommands, subs[k].Flags)])

\* App.generateZsh
generateZsh(a) ==
    [shell |-> Zsh, entry |-> a.name, funcs |-> zshCommandFunc(a, a.name, a.commands, <<>>)]

\* names := cmd.Name; for each alias: names += " " + alias
fishNames(c) == Join(<<c.Name>> \o c.Aliases, <<" ">>)

\* a "complete -c app -n cond -a word" line
fishArgLine(cond, word) == [cond |-> cond, a |-> word, l |-> <<>>, s |-> NoShort]

\* a "complete -c app -n cond -l name [-s c]" line
fishFlagLine(cond, f) == [cond |-> cond, a |-> <<>>, l |-> f.Name, s |-> f.Short]

\* the condition __fish_use_subcommand
fishUse == << [test |-> "use", names |-> <<>>] >>

\* condition + "; and __fish_seen_subcommand_from " + names
fishSeen(cond, names) == Append(cond, [test |-> "seen", names |-> names])

RECURSIVE writeFishCommand(_, _, _)
\* App.writeFishCommand
writeFishCommand(a, c, cond) ==
    Flatten([k \in 1..Len(c.SubCommands) |->
        LET sub == c.SubCommands[k]
        IN  <<fishArgLine(cond, sub.Name)>> \o
            [j \in 1..Len(sub.Aliases) |-> fishArgLine(cond, sub.Aliases[j])] \o
            writeFishCommand(a, sub, fishSeen(cond, fishNames(sub)))]) \o
    LET fl == completionFlagList(a, c.Flags)
    IN  [k \in 1..Len(fl) |-> fishFlagLine(cond, fl[k])]

\* App.generateFish
generateFish(a) ==
    [shell |-> Fish,
     lines |->
        Flatten([k \in 1..Len(a.commands) |->
            <<fishArgLine(fishUse, a.commands[k].Name)>> \o
            [j \in 1..Len(a.commands[k].Aliases) |->
                fishArgLine(fishUse, a.commands[k].Aliases[j])]]) \o
        Flatten([k \in 1..Len(a.commands) |->
            writeFishCommand(a, a.commands[k],
                             fishSeen(<<>>, fishNames(a.commands[k])))])]

\* the script of an unsupported shell: none
NoScript == [shell |-> <<>>]

\* a mutant of GenerateCompletion that falls back to Bash
generateCompletion_Fallback(a, shell) ==
    [script |-> generateBash(a), err |-> NoErr]

\* the switch of App.GenerateCompletion, after ensureHelp: the script written
\* and the error returned
generateCompletion(a, shell) ==
    CASE shell = Bash -> [script |-> generateBash(a), err |-> NoErr]
      [] shell = Zsh -> [script |-> generateZsh(a), err |-> NoErr]
      [] shell = Fish -> [script |-> generateFish(a), err |-> NoErr]
      [] shell = PowerShell -> [script |-> generatePowerShell(a), err |-> NoErr]
      [] OTHER -> [script |-> NoScript, err |-> Errorf("UnsupportedShell", <<>>, shell, "")]

----------------------------------------------------------------------------
(* What the generated scripts do in their shell.                           *)

\* the index of the first element of a sequence that a test accepts, 0 for none
FirstIndex(seq, Test(_)) ==
    IF \E k \in 1..Len(seq) : Test(seq[k])
    THEN CHOOSE k \in 1..Len(seq) : Test(seq[k]) /\ \A j \in 1..(k - 1) : ~Test(seq[j])
    ELSE 0

\* one iteration of the while loop of the Bash script: a word that matches -*
\* is skipped; any other word moves the path to the first case entry one of
\* whose patterns is path/word, and leaves it when there is none
bashResolveStep(script, path, word) ==
    IF HasPrefix(word, <<"-">>) THEN path
    ELSE LET try == Slash(path, word)
             hit(e) == \E j \in 1..Len(e.patterns) : e.patterns[j] = try
             k == FirstIndex(script.resolver, hit)
         IN  IF k = 0 THEN path ELSE script.resolver[k].path

RECURSIVE bashResolve(_, _, _)
\* the while loop of the Bash script over the words before the cursor
bashResolve(script, path, words) ==
    IF words = <<>> THEN path
    ELSE bashResolve(script, bashResolveStep(script, path, words[1]), Tail(words))

\* case "$path" in ... esac and compgen -W "$opts": the candidates of a path
bashCandidates(script, path) ==
    LET at(e) == e.path = path
        k == FirstIndex(script.completions, at)
    IN  IF k = 0 THEN <<>> ELSE Fields(script.completions[k].opts)

\* $table.ContainsKey(key) and $table[key] of a PowerShell hash literal, whose
\* keys compare without regard to case: the index of the entry, 0 for none
poshLookup(keys, key) ==
    LET at(k) == EqualFold(k, key)
    IN  FirstIndex(keys, at)

\* one iteration of the for loop of the PowerShell script
poshResolveStep(script, path, t) ==
    IF HasPrefix(t, <<"-">>) THEN path
    ELSE LET try0 == Slash(path, t)
             r == poshLookup([k \in 1..Len(script.resolve) |-> script.resolve[k].key], try0)
             try == IF r # 0 THEN script.resolve[r].val ELSE try0
             c == poshLookup([k \in 1..Len(script.completions) |->
                                 script.completions[k].path], try)
         IN  IF c # 0 THEN try ELSE path

RECURSIVE poshResolve(_, _, _)
\* the for loop of the PowerShell script over the tokens before the last
poshResolve(script, path, tokens) ==
    IF tokens = <<>> THEN path
    ELSE poshResolve(script, poshResolveStep(script, path, tokens[1]), Tail(tokens))

\* $completions[$path]: the candidates of a path
poshCandidates(script, path) ==
    LET c == poshLookup([k \in 1..Len(script.completions) |-> script.completions[k].path],
                        path)
    IN  IF c = 0 THEN <<>> ELSE script.completions[c].items

\* the function a name denotes in zsh: the last one defined under it
zshFunction(script, name) ==
    LET ks == { k \in 1..Len(script.funcs) : script.funcs[k].name = name }
    IN  IF ks = {} THEN 0 ELSE CHOOSE k \in ks : \A j \in ks : j <= k

RECURSIVE zshRoute(_, _, _)
\* the function reached from function fn by the words of a command path: each
\* word takes the first entry of "case ${line[1]}" that names it
zshRoute(script, fn, words) ==
    IF fn = 0 \/ words = <<>> THEN fn
    ELSE LET names(r) == \E j \in 1..Len(r.names) : r.names[j] = words[1]
             k == FirstIndex(script.funcs[fn].routes, names)
         IN  IF k = 0 THEN 0
             ELSE zshRoute(script, zshFunction(script, script.funcs[fn].routes[k].func),
                           Tail(words))

\* the candidates zsh offers after the words of a command path: the flags
\* given to _arguments and the words of the commands array
zshCandidates(script, words) ==
    LET fn == zshRoute(script, zshFunction(script, script.entry), words)
    IN  IF fn = 0 THEN <<>> ELSE script.funcs[fn].flags \o script.funcs[fn].commands

\* whether a condition of a fish line holds for the words typed so far:
\* __fish_use_subcommand holds while no word other than an option was typed,
\* __fish_seen_subcommand_from holds when one of its names was typed
fishHolds(cond, words) ==
    \A k \in 1..Len(cond) :
        IF cond[k].test = "use"
        THEN \A j \in 1..Len(words) : HasPrefix(words[j], <<"-">>)
        ELSE \E j \in 1..Len(words) :
                 \E n \in 1..Len(Fields(cond[k].names)) : Fields(cond[k].names)[n] = words[j]

\* the candidates of one fish line: the word of -a, or --name of -l with -c of -s
fishLineWords(line) ==
    IF line.a # <<>> THEN <<line.a>>
    ELSE << <<"-", "-">> \o line.l >> \o
         (IF line.s # NoShort THEN << <<"-", line.s>> >> ELSE <<>>)

\* the candidates fish offers after the words typed so far
fishCandidates(script, words) ==
    Flatten([k \in 1..Len(script.lines) |->
        IF fishHolds(script.lines[k].cond, words)
        THEN fishLineWords(script.lines[k]) ELSE <<>>])

\* the candidates a script offers at the node the names of a command path
\* lead to
Candidates(script, names) ==
    CASE script.shell = Bash -> bashCandidates(script, Join(<<ROOT>> \o names, <<"/">>))
      [] script.shell = PowerShell -> poshCandidates(script, Join(<<ROOT>> \o names, <<"/">>))
      [] script.shell = Zsh -> zshCandidates(script, names)
      [] script.shell = Fish -> fishCandidates(script, names)
      [] OTHER -> <<>>

----------------------------------------------------------------------------
(* App.Run.                                                                *)

HelpTokens == { <<"-", "-", "h", "e", "l", "p">>, <<"-", "h">> }

\* App.printCommandList: what it writes
printCommandList(a) ==
    [kind |-> "list",
     commands |-> [k \in 1..Len(a.commands) |-> a.commands[k].Name],
     global |-> [k \in 1..Len(a.globalFlags) |-> a.globalFlags[k].Name]]

\* App.printCommandHelp: what it writes
printCommandHelp(a, c) ==
    [kind |-> "help",
     name |-> c.Name,
     aliases |-> c.Aliases,
     commands |-> [k \in 1..Len(c.SubCommands) |-> c.SubCommands[k].Name],
     flags |-> [k \in 1..Len(c.Flags) |-> c.Flags[k].Name],
     global |-> [k \in 1..Len(a.globalFlags) |-> a.globalFlags[k].Name]]

\* the usage line of the completion command
completionUsage == [kind |-> "usage"]

\* a script written by GenerateCompletion
scriptWritten(script) == [kind |-> "script", script |-> script]

\* a mutant of descends that also descends on a flag-like token
descends_ThroughFlags(c, rest) ==
    /\ Len(c.SubCommands) > 0
    /\ Len(rest) > 0
    /\ findSubCommand(c, rest[1]) # 0

\* whether the resolver loop of Run descends from command c on the tokens rest
descends(c, rest) ==
    /\ Len(c.SubCommands) > 0
    /\ Len(rest) > 0
    /\ ~HasPrefix(rest[1], <<"-">>)
    /\ findSubCommand(c, rest[1]) # 0

\* a mutant of descend that does not consume the matched token
descend_KeepToken(cmds, r) ==
    [target |-> Append(r.target, findSubCommand(NodeAt(cmds, r.target), r.cmdArgs[1])),
     cmdArgs |-> r.cmdArgs]

\* cmd = sub; cmdArgs = cmdArgs[1:], on the locals r = [target, cmdArgs]
descend(cmds, r) ==
    [target |-> Append(r.target, findSubCommand(NodeAt(cmds, r.target), r.cmdArgs[1])),
     cmdArgs |-> Tail(r.cmdArgs)]

\* a mutant of helpRequested that looks behind a bare "--" too
RECURSIVE helpRequested_PastSeparator(_)
helpRequested_PastSeparator(rest) ==
    IF rest = <<>> THEN FALSE
    ELSE IF rest[1] \in HelpTokens THEN TRUE
    ELSE helpRequested_PastSeparator(Tail(rest))

RECURSIVE helpRequested(_)
\* the loop of Run that looks for --help or -h before a bare "--"
helpRequested(rest) ==
    IF rest = <<>> THEN FALSE
    ELSE IF rest[1] \in HelpTokens THEN TRUE
    ELSE IF rest[1] = <<"-", "-">> THEN FALSE
    ELSE helpRequested(Tail(rest))

\* a mutant of hasHandler that takes every command to have a handler
hasHandler_Always(c) == TRUE

\* cmd.Execute != nil
hasHandler(c) == c.Execute # "nil"

\* the Context handed to Execute; command is the Command its pointer leads to
Context(path, c, pos, fl) == [path |-> path, command |-> c, args |-> pos, flags |-> fl]

\* what the Execute handler of command c does with its Context: the output it
\* writes and the error it returns.  A handler of the application writes
\* nothing and returns nil; the built-in handlers are those of ensureHelp
execute(a, c, ctx) ==
    CASE c.Execute = "help" ->
            IF Len(ctx.args) > 0
            THEN LET k == findCommand(a, ctx.args[1])
                 IN  IF k = 0
                     THEN [out |-> <<>>, err |-> Errorf("CommandNotFound", <<>>, ctx.args[1], "")]
                     ELSE [out |-> <<printCommandHelp(a, a.commands[k])>>, err |-> NoErr]
            ELSE [out |-> <<printCommandList(a)>>, err |-> NoErr]
      [] c.Execute = "completion" ->
            IF Len(ctx.args) = 0
            THEN [out |-> <<completionUsage>>, err |-> NoErr]
            ELSE LET g == generateCompletion(ensureHelp(a), ctx.args[1])
                 IN  [out |-> IF g.err = NoErr THEN <<scriptWritten(g.script)>> ELSE <<>>,
                      err |-> g.err]
      [] OTHER -> [out |-> <<>>, err |-> NoErr]

\* return err from Run or GenerateCompletion, after writing out
Returns(out, e) ==
    /\ output' = output \o out
    /\ ret' = e
    /\ rpc' = "returned"

\* Run up to the resolver loop: ensureHelp, the command list for no argument
\* or a leading --help / -h, and findCommand on args[0]
RunEntry ==
    /\ rpc = "entry"
    /\ call.op = "Run"
    /\ app' = ensureHelp(app)
    /\ LET a == ensureHelp(app)
           k == IF Len(call.args) > 0 THEN findCommand(a, call.args[1]) ELSE 0
       IN  IF Len(call.args) = 0 \/ call.args[1] \in HelpTokens
           THEN Returns(<<printCommandList(a)>>, NoErr) /\ UNCHANGED <<target, cmdArgs>>
           ELSE IF k = 0
           THEN /\ Returns(<<>>, Errorf("CommandNotFound", <<>>, call.args[1], ""))
                /\ UNCHANGED <<target, cmdArgs>>
           ELSE /\ target' = <<k>>
                /\ cmdArgs' = Tail(call.args)
                /\ rpc' = "resolve"
                /\ UNCHANGED <<output, ret>>
    /\ UNCHANGED <<call, executed>>
    /\ UNCHANGED parserVars

\* one iteration of the resolver loop that finds a subcommand
Descend ==
    /\ rpc = "resolve"
    /\ descends(NodeAt(app.commands, target), cmdArgs)
    /\ LET r == descend(app.commands, [target |-> target, cmdArgs |-> cmdArgs])
       IN  target' = r.target /\ cmdArgs' = r.cmdArgs
    /\ UNCHANGED <<app, call, rpc, output, executed, ret>>
    /\ UNCHANGED parserVars

\* the exit of the resolver loop
StopDescent ==
    /\ rpc = "resolve"
    /\ ~descends(NodeAt(app.commands, target), cmdArgs)
    /\ rpc' = "help"
    /\ UNCHANGED <<app, call, target, cmdArgs, output, executed, ret>>
    /\ UNCHANGED parserVars

\* the loop over cmdArgs that looks for --help / -h
ScanHelp ==
    /\ rpc = "help"
    /\ IF helpRequested(cmdArgs)
       THEN Returns(<<printCommandHelp(app, NodeAt(app.commands, target))>>, NoErr)
       ELSE rpc' = "dispatch" /\ UNCHANGED <<output, ret>>
    /\ UNCHANGED <<app, call, target, cmdArgs, executed>>
    /\ UNCHANGED parserVars

\* the test of cmd.Execute, mergeGlobalFlags and the call of parseArgs
Dispatch ==
    /\ rpc = "dispatch"
    /\ LET c == NodeAt(app.commands, target)
       IN  IF ~hasHandler(c)
           THEN /\ Returns(<<printCommandHelp(app, c)>>, NoErr)
                /\ UNCHANGED parserVars
           ELSE /\ cmd' = mergeGlobalFlags(app, c)
                /\ raw' = cmdArgs
                /\ allowUnknown' = app.allowUnknownFlags
                /\ i' = Start.i
                /\ positional' = Start.positional
                /\ flags' = Start.flags
                /\ stopFlags' = Start.stopFlags
                /\ pc' = Start.pc
                /\ err' = Start.err
                /\ rpc' = "parse"
                /\ UNCHANGED <<environ, output, ret>>
    /\ UNCHANGED <<app, call, target, cmdArgs, executed>>

\* a mutant of Return that hands the merged copy of the command to Execute
Return_MergedContext ==
    /\ rpc = "parse"
    /\ pc = "done"
    /\ IF err # NoErr
       THEN Returns(<<>>, err) /\ UNCHANGED executed
       ELSE LET c == NodeAt(app.commands, target)
                ctx == Context(target, [c EXCEPT !.Flags = cmd], positional, flags)
                x == execute(app, c, ctx)
            IN  /\ executed' = Append(executed, ctx)
                /\ Returns(x.out, x.err)
    /\ UNCHANGED <<app, call, target, cmdArgs>>
    /\ UNCHANGED parserVars

\* the return of parseArgs: its error, or the call of cmd.Execute
Return ==
    /\ rpc = "parse"
    /\ pc = "done"
    /\ IF err # NoErr
       THEN Returns(<<>>, err) /\ UNCHANGED executed
       ELSE LET c == NodeAt(app.commands, target)
                ctx == Context(target, c, positional, flags)
                x == execute(app, c, ctx)
            IN  /\ executed' = Append(executed, ctx)
                /\ Returns(x.out, x.err)
    /\ UNCHANGED <<app, call, target, cmdArgs>>
    /\ UNCHANGED parserVars

\* App.GenerateCompletion called on its own
GenerateCompletion ==
    /\ rpc = "entry"
    /\ call.op = "GenerateCompletion"
    /\ app' = ensureHelp(app)
    /\ LET g == generateCompletion(ensureHelp(app), call.shell)
       IN  Returns(IF g.err = NoErr THEN <<scriptWritten(g.script)>> ELSE <<>>, g.err)
    /\ UNCHANGED <<call, target, cmdArgs, executed>>
    /\ UNCHANGED parserVars

\* the steps of one Run call
NextRun ==
    \/ Next
    \/ RunEntry
    \/ Descend
    \/ StopDescent
    \/ ScanHelp
    \/ Dispatch
    \/ Return

\* App.AddCommand
AddCommand ==
    /\ rpc = "entry"
    /\ call.op = "AddCommand"
    /\ LET r == addCommand(app, call.command)
       IN  app' = r.app /\ Returns(<<>>, r.err)
    /\ UNCHANGED <<call, target, cmdArgs, executed>>
    /\ UNCHANGED parserVars

NextApp ==
    \/ Next
    \/ RunEntry
    \/ Descend
    \/ StopDescent
    \/ ScanHelp
    \/ Dispatch
    \/ Return
    \/ GenerateCompletion

----------------------------------------------------------------------------
(* Inputs: the declared flag, the environment and the token streams.       *)

\* the flag names and the environment variable of the inputs
nOpt == <<"o", "p", "t">>

nUnk == <<"u", "n", "k">>

OptEnv == "OPT_ENV"

\* token forms
Separator == <<"-", "-">>

Long(n) == <<"-", "-">> \o n

WithEq(t, v) == t \o <<"=">> \o v

\* every sequence over V of length at most n
Streams(V, n) == UNION { [1..k -> V] : k \in 0..n }

\* a value the validator accepts for a flag of type t
GoodVal(t) ==
    CASE t = "FlagBool" -> <<"f", "a", "l", "s", "e">>
      [] t = "FlagInt" -> <<"4", "2">>
      [] t = "FlagFloat" -> <<"1", ".", "5">>
      [] t = "FlagStringSlice" -> <<"a", ",", "b">>
      [] t = "FlagCount" -> <<"2">>
      [] OTHER -> <<"s">>

\* a second value: one the validator rejects for Bool, Int and Float
OtherVal(t) ==
    CASE t = "FlagBool" -> <<"y", "e", "s">>
      [] t = "FlagInt" -> <<"4", "x">>
      [] t = "FlagFloat" -> <<"1", ".", ".">>
      [] t = "FlagStringSlice" -> <<"c">>
      [] t = "FlagCount" -> <<"x">>
      [] OTHER -> <<"-", "5">>

\* the value OPT_ENV is set to, when it is set to one the validator accepts
EnvVal(t) ==
    CASE t = "FlagBool" -> <<"1">>
      [] t = "FlagInt" -> <<"-", "8">>
      [] t = "FlagFloat" -> <<"2", "e", "3">>
      [] t = "FlagStringSlice" -> <<"x", ",", "y">>
      [] t = "FlagCount" -> <<"5">>
      [] OTHER -> <<"e">>

\* the declared default, when there is one
DfltVal(t) ==
    CASE t = "FlagBool" -> <<"T">>
      [] t = "FlagInt" -> <<"7">>
      [] t = "FlagFloat" -> <<".", "5">>
      [] t = "FlagStringSlice" -> <<"d", ",", "e">>
      [] t = "FlagCount" -> <<"3">>
      [] OTHER -> <<"d">>

\* the declared flag: --opt, -o
OptFlag(t, req, dflt, env) ==
    [Name |-> nOpt, Short |-> "o", Type |-> t, Required |-> req,
     Default |-> dflt, Env |-> env]

\* the environment with OPT_ENV unset, or set to v
EnvUnset == [n \in {OptEnv} |-> [set |-> FALSE, val |-> <<>>]]

EnvSet(v) == [n \in {OptEnv} |-> [set |-> TRUE, val |-> v]]

\* no App: parseArgs is called on its own
NoApp == [name |-> <<>>, commands |-> <<>>, globalFlags |-> <<>>, helpAdded |-> FALSE,
          allowUnknownFlags |-> FALSE]

\* the state at the entry of parseArgs
Entry(fl, tokens, allow, env) ==
    /\ cmd = fl
    /\ raw = tokens
    /\ allowUnknown = allow
    /\ environ = env
    /\ i = Start.i
    /\ positional = Start.positional
    /\ flags = Start.flags
    /\ stopFlags = Start.stopFlags
    /\ pc = Start.pc
    /\ err = Start.err
    /\ app = NoApp
    /\ call = [op |-> "parseArgs"]
    /\ target = <<>>
    /\ cmdArgs = <<>>
    /\ rpc = "direct"
    /\ output = <<>>
    /\ executed = <<>>
    /\ ret = NoErr

\* tokens every stream of the general specification draws from
CommonTokens ==
    { Separator, <<"p">>, <<"-">>, Long(nOpt), <<"-", "o">>, Long(nUnk),
      WithEq(Long(nUnk), <<"1">>), <<"-", "o", "o">>, <<"-", "-", "-", "o", "p", "t">> }

\* tokens that depend on the type of --opt
TypeTokens(t) ==
    CASE t = "FlagBool" ->
            { WithEq(Long(nOpt), GoodVal(t)), <<"F", "A", "L", "S", "E">>, <<"t">>,
              <<"t", "R", "U", "E">> }
      [] t = "FlagCount" ->
            { <<"-", "o", "o", "o">>, <<"-", "-", "o", "o">>, WithEq(<<"-", "o", "o">>, <<"1">>) }
      [] OTHER ->
            { WithEq(Long(nOpt), GoodVal(t)), GoodVal(t), OtherVal(t) }

Init ==
    \E t \in FlagTypes, allow \in BOOLEAN :
        \E tokens \in Streams(CommonTokens \cup TypeTokens(t), MaxLen) :
            Entry(<<OptFlag(t, FALSE, <<>>, NoEnv)>>, tokens, allow, EnvUnset)

Spec == Init /\ [][Next]_vars

\* the environments of the env/default/required specification
Environs(t) == { EnvUnset, EnvSet(EnvVal(t)), EnvSet(OtherVal(t)) }

EnvTokens(t) == { Separator, <<"p">>, Long(nOpt), WithEq(Long(nOpt), GoodVal(t)), GoodVal(t) }

\* one declared flag with every combination of Required, Default and Env
InitEnv ==
    \E t \in FlagTypes, req \in BOOLEAN, hasDflt \in BOOLEAN, hasEnv \in BOOLEAN :
        \E env \in (IF hasEnv THEN Environs(t) ELSE {EnvUnset}) :
            \E tokens \in Streams(EnvTokens(t), MaxEnvLen) :
                Entry(<<OptFlag(t, req, IF hasDflt THEN DfltVal(t) ELSE <<>>,
                                IF hasEnv THEN OptEnv ELSE NoEnv)>>,
                      tokens, FALSE, env)

SpecEnv == InitEnv /\ [][Next]_vars

\* the values of the value-form specification
Vals ==
    { <<>>, <<"s">>, <<"a", "=", "b">>, Separator, <<"-", "5">>, <<"4", "2">>, <<"4", "x">>,
      <<"1", ".", "5">>, <<"T", "r", "u", "e">>, <<"t", "R", "U", "E">>, <<"t">>, <<"0">> }

ValTokens == { Long(nOpt) } \cup Vals \cup { WithEq(Long(nOpt), v) : v \in Vals }

\* a String, Bool, Int or Float flag, given its value in either form
InitVal ==
    \E t \in {"FlagString", "FlagBool", "FlagInt", "FlagFloat"}, allow \in BOOLEAN :
        \E tokens \in Streams(ValTokens, MaxValLen) :
            Entry(<<OptFlag(t, FALSE, <<>>, NoEnv)>>, tokens, allow, EnvUnset)

SpecVal == InitVal /\ [][Next]_vars

SliceTokens ==
    { Separator, Long(nOpt), <<"-", "o">>, WithEq(Long(nOpt), <<"a", ",", "b">>),
      <<"a">>, <<"b">>, <<"a", ",", "b">>, <<"c">> }

\* a StringSlice flag given several times
InitSlice ==
    \E tokens \in Streams(SliceTokens, MaxSliceLen) :
        Entry(<<OptFlag("FlagStringSlice", FALSE, <<>>, NoEnv)>>, tokens, FALSE, EnvUnset)

SpecSlice == InitSlice /\ [][Next]_vars

\* tokens around a flag that takes the next token as its value
TakeTokens ==
    { Long(nOpt), <<"-", "o">>, Long(nUnk), Separator, <<"-", "5">>, <<"v">>, <<"a", ",", "b">> }

\* longest token stream of the value-taking specification
MaxTakeLen == 3

\* a String, Int, Float or StringSlice flag, unknown flags allowed or not
InitTake ==
    \E t \in {"FlagString", "FlagInt", "FlagFloat", "FlagStringSlice"}, allow \in BOOLEAN :
        \E tokens \in Streams(TakeTokens, MaxTakeLen) :
            Entry(<<OptFlag(t, FALSE, <<>>, NoEnv)>>, tokens, allow, EnvUnset)

SpecTake == InitTake /\ [][Next]_vars

\* the names of the command tree of the App specification
nApp == <<"a", "p", "p">>

nDb == <<"d", "b">>

nMigrate == <<"m", "i", "g", "r", "a", "t", "e">>

nM == <<"m">>

nUp == <<"u", "p">>

nDown == <<"d", "o", "w", "n">>

nDry == <<"d", "r", "y">>

nVerbose == <<"v", "e", "r", "b", "o", "s", "e">>

nTcsh == <<"t", "c", "s", "h">>

nBashUpper == <<"B", "a", "s", "h">>

\* db -> migrate (alias m) -> {up, down}; db declares --opt/-o of type
\* optType, migrate --dry, and db and migrate have a handler or not
Tree(dbExec, migrateExec, optType) ==
    << Command(nDb, <<>>, <<Flag(nOpt, "o", optType)>>,
               << Command(nMigrate, <<nM>>, <<Flag(nDry, NoShort, "FlagBool")>>,
                          << Command(nUp, <<>>, <<>>, <<>>, "user"),
                             Command(nDown, <<>>, <<>>, <<>>, "user") >>,
                          migrateExec) >>,
               dbExec) >>

\* the global flag lists: none; --verbose/-v with a global --opt that db's own
\* --opt shadows; a global flag named o, the short character of db's --opt
NoGlobals == <<>>

VerboseAndOpt == << Flag(nVerbose, "v", "FlagCount"), Flag(nOpt, NoShort, "FlagString") >>

NamedAsShort == << Flag(<<"o">>, NoShort, "FlagBool") >>

\* an App before its first Run
NewApp(commands, globalFlags, allow) ==
    [name |-> nApp, commands |-> commands, globalFlags |-> globalFlags,
     helpAdded |-> FALSE, allowUnknownFlags |-> allow]

\* the tree in which migrate has a second alias that reads like db's flag
DashTree ==
    [Tree("user", "user", "FlagBool") EXCEPT ![1].SubCommands[1].Aliases = <<nM, Long(nOpt)>>]

\* the applications: every command with a handler and no global flag; db
\* without a handler, under shadowing global flags; migrate without a handler,
\* unknown flags allowed; --opt taking a value; an alias that begins with '-'
Apps ==
    { NewApp(Tree("user", "user", "FlagBool"), NoGlobals, FALSE),
      NewApp(Tree("nil", "user", "FlagBool"), VerboseAndOpt, FALSE),
      NewApp(Tree("user", "nil", "FlagBool"), NamedAsShort, TRUE),
      NewApp(Tree("user", "user", "FlagString"), VerboseAndOpt, FALSE),
      NewApp(DashTree, NoGlobals, FALSE) }

\* the tokens of the arguments given to Run
RunTokens ==
    { nDb, nMigrate, nM, nUp, nHelp, <<"-", "-", "h", "e", "l", "p">>, <<"-", "h">>,
      Separator, Long(nOpt) }

\* longest argument list given to Run
MaxArgs == 4

Calls ==
    { [op |-> "Run", args |-> a] : a \in Streams(RunTokens, MaxArgs) } \cup
    { [op |-> "GenerateCompletion", shell |-> sh] :
          sh \in {Bash, Zsh, Fish, PowerShell, nTcsh, nBashUpper} }

\* an App on which Run or GenerateCompletion is called
InitApp ==
    \E a \in Apps, c \in Calls :
        /\ app = a
        /\ call = c
        /\ target = <<>>
        /\ cmdArgs = <<>>
        /\ rpc = "entry"
        /\ output = <<>>
        /\ executed = <<>>
        /\ ret = NoErr
        /\ cmd = <<>>
        /\ raw = <<>>
        /\ allowUnknown = FALSE
        /\ environ = EnvUnset
        /\ i = Start.i
        /\ positional = Start.positional
        /\ flags = Start.flags
        /\ stopFlags = Start.stopFlags
        /\ pc = "idle"
        /\ err = NoErr

SpecApp == InitApp /\ [][NextApp]_vars

\* the tokens and the longest argument list of the calls that are followed
\* to their end
LiveTokens == { nDb, nM, nUp, Long(nOpt), Separator, <<"-", "h">> }

MaxLiveArgs == 4

\* Run or GenerateCompletion on an App with a handler everywhere and a
\* String flag, or with unknown flags allowed and no handler for migrate
InitLive ==
    \E a \in { NewApp(Tree("user", "user", "FlagString"), VerboseAndOpt, FALSE),
               NewApp(Tree("user", "nil", "FlagBool"), NamedAsShort, TRUE) },
       c \in { [op |-> "Run", args |-> t] : t \in Streams(LiveTokens, MaxLiveArgs) } \cup
              { [op |-> "GenerateCompletion", shell |-> sh] : sh \in {Bash, nTcsh} } :
        /\ app = a
        /\ call = c
        /\ target = <<>>
        /\ cmdArgs = <<>>
        /\ rpc = "entry"
        /\ output = <<>>
        /\ executed = <<>>
        /\ ret = NoErr
        /\ cmd = <<>>
        /\ raw = <<>>
        /\ allowUnknown = FALSE
        /\ environ = EnvUnset
        /\ i = Start.i
        /\ positional = Start.positional
        /\ flags = Start.flags
        /\ stopFlags = Start.stopFlags
        /\ pc = "idle"
        /\ err = NoErr

\* the calls run to their end: Run and the functions it calls are sequential
\* code, of which a step is always taken while one is left
SpecAppLive == InitLive /\ [][NextApp]_vars /\ WF_vars(NextApp)

\* the commands the application registers: db with its subtree, a command of
\* its own named help, a command without a name, and a second db that
\* declares a flag without a name
UserDb == Tree("user", "user", "FlagBool")[1]

UserHelp == Command(nHelp, <<>>, <<>>, <<>>, "user")

Unnamed == Command(<<>>, <<>>, <<>>, <<>>, "user")

UnnamedFlag == Command(nDb, <<>>, <<Flag(<<>>, NoShort, "FlagBool")>>, <<>>, "user")

\* the calls made on one App during its life
LifeCalls ==
    { [op |-> "AddCommand", command |-> c] : c \in {UserDb, UserHelp, Unnamed, UnnamedFlag} } \cup
    { [op |-> "Run", args |-> a] :
          a \in { <<>>, <<nHelp>>, <<nHelp, nDb>>, <<nDb, Long(nOpt)>>,
                  <<nDb, nM, Long(nDry), Separator, nUp>>, <<nCompletion, Bash>> } } \cup
    { [op |-> "GenerateCompletion", shell |-> sh] : sh \in {Fish, nTcsh} }

\* the application makes its next call on the App once the last has returned;
\* output, executed and ret are those of the call in progress
Call ==
    /\ rpc = "returned"
    /\ \E c \in LifeCalls : call' = c
    /\ rpc' = "entry"
    /\ target' = <<>>
    /\ cmdArgs' = <<>>
    /\ output' = <<>>
    /\ executed' = <<>>
    /\ ret' = NoErr
    /\ cmd' = <<>>
    /\ raw' = <<>>
    /\ i' = Start.i
    /\ positional' = Start.positional
    /\ flags' = Start.flags
    /\ stopFlags' = Start.stopFlags
    /\ pc' = "idle"
    /\ err' = NoErr
    /\ UNCHANGED <<app, allowUnknown, environ>>

\* the steps of one call on the App, and the calls the application makes one
\* after the other on the same App
NextLife ==
    \/ NextApp
    \/ AddCommand
    \/ Call

\* an App just made by New, before the first call on it
InitLife ==
    \E g \in {NoGlobals, VerboseAndOpt} :
        /\ app = NewApp(<<>>, g, FALSE)
        /\ call = [op |-> "New"]
        /\ target = <<>>
        /\ cmdArgs = <<>>
        /\ rpc = "returned"
        /\ output = <<>>
        /\ executed = <<>>
        /\ ret = NoErr
        /\ cmd = <<>>
        /\ raw = <<>>
        /\ allowUnknown = FALSE
        /\ environ = EnvUnset
        /\ i = Start.i
        /\ positional = Start.positional
        /\ flags = Start.flags
        /\ stopFlags = Start.stopFlags
        /\ pc = "idle"
        /\ err = NoErr

SpecLife == InitLife /\ [][NextLife]_vars

\* the second declared flag of the fault specification: --req, required
nReq == <<"r", "e", "q">>

ReqFlag ==
    [Name |-> nReq, Short |-> NoShort, Type |-> "FlagString", Required |-> TRUE,
     Default |-> <<>>, Env |-> NoEnv]

\* tokens that each stand for themselves: three faulty ones (an unknown
\* flag, a value that is no Int, three dashes) and four sound ones
BadInt == <<"4", "x">>

FaultTokens ==
    { Long(nUnk), WithEq(Long(nOpt), BadInt), <<"-", "-", "-", "o", "p", "t">>,
      WithEq(Long(nOpt), <<"7">>), WithEq(Long(nReq), <<"s">>), <<"p">>, Separator }

\* longest token stream of the fault specification
MaxFaultLen == 3

\* db -> up, where up declares the flags fl
FaultTree(fl) ==
    << Command(nDb, <<>>, <<>>, << Command(nUp, <<>>, fl, <<>>, "user") >>, "user") >>

\* Run on db up with up to MaxFaultLen tokens; up declares the Int flag
\* --opt, bound to OPT_ENV, and the required --req, in either order; OPT_ENV
\* is unset, an Int, or no Int
InitFault ==
    \E tokens \in Streams(FaultTokens, MaxFaultLen),
       env \in {EnvUnset, EnvSet(<<"4", "2">>), EnvSet(BadInt)},
       optFirst \in BOOLEAN :
        LET opt == OptFlag("FlagInt", FALSE, <<>>, OptEnv)
        IN  /\ app = NewApp(FaultTree(IF optFirst THEN <<opt, ReqFlag>> ELSE <<ReqFlag, opt>>),
                            NoGlobals, FALSE)
            /\ call = [op |-> "Run", args |-> <<nDb, nUp>> \o tokens]
            /\ target = <<>>
            /\ cmdArgs = <<>>
            /\ rpc = "entry"
            /\ output = <<>>
            /\ executed = <<>>
            /\ ret = NoErr
            /\ cmd = <<>>
            /\ raw = <<>>
            /\ allowUnknown = FALSE
            /\ environ = env
            /\ i = Start.i
            /\ positional = Start.positional
            /\ flags = Start.flags
            /\ stopFlags = Start.stopFlags
            /\ pc = "idle"
            /\ err = NoErr

SpecFault == InitFault /\ [][NextRun]_vars

----------------------------------------------------------------------------
(* Claims.                                                                 *)

\* the single declared flag of the inputs
Opt == cmd[1]

\* the environment value bound to the declared flag, and whether it is set
OptEnvSet == Opt.Env # NoEnv /\ LookupEnv(environ, Opt.Env).set

OptEnvVal == LookupEnv(environ, Opt.Env).val

\* the outcome of the same tokens for the same flag declared without Env,
\* Default and Required: what the command line alone supplies
CliOnly ==
    parseArgs(<<[Opt EXCEPT !.Env = NoEnv, !.Default = <<>>, !.Required = FALSE]>>,
              raw, allowUnknown, EnvUnset)

\* the stored text of --opt reads back as the text v: element by element for a
\* StringSlice flag, verbatim for the others
ReadsBackAs(v) ==
    /\ Has(flags, nOpt)
    /\ IF Opt.Type = "FlagStringSlice"
       THEN StringSlice(flags, nOpt).val = Split(v, ",")
       ELSE flags[nOpt] = v

SeparatorLaw ==
    [][InLoop =>
        /\ (stopFlags =>
              /\ positional' = Append(positional, raw[i])
              /\ i' = i + 1
              /\ stopFlags')
        /\ ((~stopFlags /\ raw[i] = Separator) =>
              /\ positional' = positional
              /\ i' = i + 1
              /\ stopFlags')]_vars

\* a token with three or more leading dashes
TripleDash(tok) == HasPrefix(tok, <<"-", "-", "-">>)

\* C3, as stated: a stream that holds a token with three or more leading
\* dashes, wherever it stands, fails, and with InvalidFlagValue unless an
\* earlier token has already failed the parse.
MalformedAnywhere ==
    (pc = "done" /\ \E k \in 1..Len(raw) : TripleDash(raw[k])) =>
        \/ err.kind = "InvalidFlagValue"
        \/ err # NoErr /\ \A k \in 1..i : ~TripleDash(raw[k])

\* C3, amended: a token with three or more leading dashes that the token
\* loop reaches as a flag token (before any bare "--", and not as the value
\* of the flag before it) ends the parse with InvalidFlagValue quoting the
\* token, for both values of allowUnknown.
MalformedLaw ==
    [][(InLoop /\ ~stopFlags /\ TripleDash(raw[i])) =>
        /\ pc' = "done"
        /\ err'.kind = "InvalidFlagValue"
        /\ err'.value = raw[i]
        /\ positional' = <<>>
        /\ flags' = EmptyMap]_vars

\* C3 witness: with unknown flags allowed, a triple-dash token that is not
\* the first token has ended the parse with InvalidFlagValue
MalformedLaw_Witness ==
    /\ pc = "done"
    /\ allowUnknown
    /\ i > 1
    /\ ~stopFlags
    /\ TripleDash(raw[i])
    /\ err.kind = "InvalidFlagValue"
    /\ err.value = raw[i]

\* whether some source supplies --opt: the command line, else the
\* environment variable when it is set, else the non-empty default
Supplied ==
    \/ Has(CliOnly.flags, nOpt)
    \/ OptEnvSet
    \/ Opt.Default # <<>>

\* C4: required law.  When the tokens alone parse without error, the parse
\* fails with RequiredFlag exactly when the flag is declared required and
\* neither the command line, nor a set environment variable, nor a non-empty
\* default supplies it, and the error names the flag; a required flag that
\* the command line, an accepted environment value or the default supplies
\* makes the parse succeed.
RequiredLaw ==
    (pc = "done" /\ CliOnly.err = NoErr) =>
        /\ (err.kind = "RequiredFlag") <=> (Opt.Required /\ ~Supplied)
        /\ (err.kind = "RequiredFlag") => (err.flag = nOpt)
        /\ (Opt.Required /\ Has(CliOnly.flags, nOpt)) => (err = NoErr)
        /\ ( /\ Opt.Required
             /\ ~Has(CliOnly.flags, nOpt)
             /\ OptEnvSet
             /\ validateFlagValue(Opt, OptEnvVal) = NoErr ) => (err = NoErr /\ Has(flags, nOpt))
        /\ ( /\ Opt.Required
             /\ ~Has(CliOnly.flags, nOpt)
             /\ ~OptEnvSet
             /\ Opt.Default # <<>> ) => (err = NoErr /\ Has(flags, nOpt))

\* C4 witness: a required flag that nothing supplies has failed the parse
\* with RequiredFlag naming it
RequiredLaw_Witness ==
    /\ pc = "done"
    /\ Opt.Required
    /\ CliOnly.err = NoErr
    /\ ~Supplied
    /\ raw = << <<"p">> >>
    /\ err.kind = "RequiredFlag"
    /\ err.flag = nOpt

\* the token at i names the declared flag in bare-name form: --opt or -o
BareOpt == TrimLeftDash(raw[i]) \in { nOpt, <<Opt.Short>> } /\ ~TripleDash(raw[i])

\* the texts that case-insensitively equal true, false, 1 or 0
IsBoolText(tok) ==
    \E b \in { <<"t", "r", "u", "e">>, <<"f", "a", "l", "s", "e">>, <<"1">>, <<"0">> } :
        EqualFold(tok, b)

\* C5: Bool consumption law.  A Bool flag in bare-name form takes the next
\* token as its value, verbatim, exactly when that token case-insensitively
\* equals true, false, 1 or 0, and then consumes two tokens; otherwise it
\* stores "true" and consumes one token, so that the next token is scanned on
\* its own.  Neither case touches positional.
BoolConsumptionLaw ==
    [][(InLoop /\ ~stopFlags /\ Opt.Type = "FlagBool" /\ BareOpt) =>
        /\ err' = NoErr
        /\ positional' = positional
        /\ IF i + 1 <= Len(raw) /\ IsBoolText(raw[i + 1])
           THEN flags' = Put(flags, nOpt, raw[i + 1]) /\ i' = i + 2
           ELSE flags' = Put(flags, nOpt, <<"t", "r", "u", "e">>) /\ i' = i + 1]_vars

\* C5 witness: --opt p has stored true and left p positional
BoolConsumptionLaw_Witness ==
    /\ pc = "done"
    /\ Opt.Type = "FlagBool"
    /\ raw = <<Long(nOpt), <<"p">>>>
    /\ err = NoErr
    /\ flags = Put(EmptyMap, nOpt, <<"t", "r", "u", "e">>)
    /\ positional = << <<"p">> >>

\* how many times a token gives the Count flag -o/--opt: 1 for -o and --opt,
\* N for a token of N characters o after the dashes, 0 for any other token
Occurrences(tok) ==
    LET name == TrimLeftDash(tok)
    IN  IF ~HasPrefix(tok, <<"-">>) \/ TripleDash(tok) THEN 0
        ELSE IF name = nOpt THEN 1
        ELSE IF name # <<>> /\ \A k \in 1..Len(name) : name[k] = Opt.Short THEN Len(name)
        ELSE 0

RECURSIVE SumOccurrences(_)
SumOccurrences(tokens) ==
    IF tokens = <<>> THEN 0
    ELSE Occurrences(tokens[1]) + SumOccurrences(Tail(tokens))

\* every token is an occurrence of the Count flag or a token without a dash
OnlyCountTokens ==
    \A k \in 1..Len(raw) : Occurrences(raw[k]) > 0 \/ ~HasPrefix(raw[k], <<"-">>)

\* C6: count law.  For a Count flag with a short character, a stream of
\* occurrences of the flag (-o, --opt, a bundle of N characters o) and of
\* tokens without a dash parses without error, and the count read back is the
\* sum of the occurrences, a bundle counting N.
CountLaw ==
    (pc = "done" /\ Opt.Type = "FlagCount" /\ OnlyCountTokens) =>
        /\ err = NoErr
        /\ Count(flags, nOpt) = SumOccurrences(raw)
        /\ Has(flags, nOpt) <=> SumOccurrences(raw) > 0

\* C6 witness: -oo --opt has counted 3
CountLaw_Witness ==
    /\ pc = "done"
    /\ Opt.Type = "FlagCount"
    /\ raw = << <<"-", "o", "o">>, Long(nOpt) >>
    /\ flags = Put(EmptyMap, nOpt, <<"3">>)
    /\ Count(flags, nOpt) = 3

\* the token t gives --opt its value after an '=': --opt=V
IsEqOpt(t) == HasPrefix(t, WithEq(Long(nOpt), <<>>))

EqOptValue(t) == From(t, Len(Long(nOpt)) + 1)

IsBareOpt(t) == t \in { Long(nOpt), <<"-", "o">> }

RECURSIVE SliceElems(_)
\* the elements a stream gives a StringSlice flag, in encounter order: the
\* comma-separated parts of V for --opt=V, of the next token for --opt and -o
SliceElems(tokens) ==
    IF tokens = <<>> THEN <<>>
    ELSE IF IsBareOpt(tokens[1]) /\ Len(tokens) >= 2
    THEN Split(tokens[2], ",") \o SliceElems(SubSeq(tokens, 3, Len(tokens)))
    ELSE IF IsEqOpt(tokens[1])
    THEN Split(EqOptValue(tokens[1]), ",") \o SliceElems(Tail(tokens))
    ELSE SliceElems(Tail(tokens))

\* C7: StringSlice law.  After a parse that succeeds and meets no bare "--",
\* Context.StringSlice returns the comma-separated elements of every
\* occurrence of the flag, in '=' form or next-token form, in encounter order;
\* it reports the flag as not set when there is no occurrence.
StringSliceLaw ==
    (pc = "done" /\ err = NoErr /\ ~stopFlags /\ Opt.Type = "FlagStringSlice") =>
        IF SliceElems(raw) = <<>>
        THEN ~StringSlice(flags, nOpt).ok
        ELSE /\ StringSlice(flags, nOpt).ok
             /\ StringSlice(flags, nOpt).val = SliceElems(raw)

\* C7 witness: --opt a,b --opt c reads back as [a, b, c]
StringSliceLaw_Witness ==
    /\ pc = "done"
    /\ err = NoErr
    /\ raw = <<Long(nOpt), <<"a", ",", "b">>, Long(nOpt), <<"c">>>>
    /\ StringSlice(flags, nOpt).val = << <<"a">>, <<"b">>, <<"c">> >>

\* the types the specification calls scalar
ScalarTypes == {"FlagString", "FlagInt", "FlagFloat"}

\* C8: for a String, Int or Float flag and every value v, the one-token stream
\* --opt=v ends with the same flag map, the same positional list and the same
\* kind of error as the two-token stream --opt v.
EqFormLaw ==
    (pc = "done" /\ Opt.Type \in ScalarTypes /\ Len(raw) = 1 /\ IsEqOpt(raw[1])) =>
        LET two == parseArgs(cmd, <<Long(nOpt), EqOptValue(raw[1])>>, allowUnknown, environ)
        IN  /\ flags = two.flags
            /\ positional = two.positional
            /\ err.kind = two.err.kind

\* C8 witness: --opt=42 has stored 42 for an Int flag, as --opt 42 does
EqFormLaw_Witness ==
    /\ pc = "done"
    /\ Opt.Type = "FlagInt"
    /\ raw = <<WithEq(Long(nOpt), <<"4", "2">>)>>
    /\ flags = Put(EmptyMap, nOpt, <<"4", "2">>)
    /\ parseArgs(cmd, <<Long(nOpt), <<"4", "2">>>>, allowUnknown, environ).flags = flags

\* the stream is --opt v
IsOptThenValue == Len(raw) = 2 /\ raw[1] = Long(nOpt)

\* C9, as stated, on the values v that have no leading dash and do not
\* case-insensitively equal true, false, 1 or 0: for a String, Int, Float or
\* Bool flag, --opt v stores v when the validator accepts v for the type, and
\* fails with InvalidFlagValue when it rejects v.
ValueLaw_AsStated ==
    (pc = "done" /\ IsOptThenValue /\ ~HasPrefix(raw[2], <<"-">>) /\ ~IsBoolText(raw[2])) =>
        IF validateFlagValue(Opt, raw[2]) = NoErr
        THEN err = NoErr /\ Has(flags, nOpt) /\ flags[nOpt] = raw[2]
        ELSE err.kind = "InvalidFlagValue"

\* the texts that are values of a scalar type: any text for String, a signed
\* decimal integer of 64 bits for Int, a decimal floating-point number for
\* Float
IsValueOf(t, v) ==
    CASE t = "FlagInt" -> ParseIntOK(v)
      [] t = "FlagFloat" -> ParseFloatOK(v)
      [] OTHER -> TRUE

\* C9, amended: for a String, Int or Float flag, --opt v stores v when the
\* validator accepts v and fails with InvalidFlagValue naming the flag and v
\* when it rejects v.  For a Bool flag, --opt v stores v verbatim when v
\* case-insensitively equals true, false, 1 or 0; for any other v without a
\* leading dash it stores "true" and leaves v positional, without error.
ValueLaw ==
    (pc = "done" /\ IsOptThenValue) =>
        IF Opt.Type \in ScalarTypes
        THEN IF IsValueOf(Opt.Type, raw[2])
             THEN err = NoErr /\ flags = Put(EmptyMap, nOpt, raw[2]) /\ positional = <<>>
             ELSE err.kind = "InvalidFlagValue" /\ err.flag = nOpt /\ err.value = raw[2]
        ELSE IF IsBoolText(raw[2])
        THEN err = NoErr /\ flags = Put(EmptyMap, nOpt, raw[2]) /\ positional = <<>>
        ELSE IF ~HasPrefix(raw[2], <<"-">>)
        THEN /\ err = NoErr
             /\ flags = Put(EmptyMap, nOpt, <<"t", "r", "u", "e">>)
             /\ positional = <<raw[2]>>
        ELSE TRUE

\* C9 witness: --opt 4x has failed with InvalidFlagValue for an Int flag
ValueLaw_Witness ==
    /\ pc = "done"
    /\ Opt.Type = "FlagInt"
    /\ raw = <<Long(nOpt), <<"4", "x">>>>
    /\ err.kind = "InvalidFlagValue"
    /\ err.value = <<"4", "x">>

\* the token at i stands where the token loop parses a flag
FlagPosition ==
    /\ InLoop
    /\ ~stopFlags
    /\ HasPrefix(raw[i], <<"-">>)
    /\ raw[i] # Separator
    /\ ~TripleDash(raw[i])

\* the name a flag token gives: what follows the dashes, up to the first '='
TokenName(tok) ==
    LET name == TrimLeftDash(tok)
    IN  IF IndexByte(name, "=") >= 0 THEN SubSeq(name, 1, IndexByte(name, "=")) ELSE name

HasEq(tok) == IndexByte(TrimLeftDash(tok), "=") >= 0

\* the token names the declared flag, by its name, by its short character, or
\* (bare form only) as a bundle of the short character of a Count flag
ResolvesToOpt(tok) ==
    \/ TokenName(tok) = nOpt
    \/ TokenName(tok) = <<Opt.Short>>
    \/ /\ ~HasEq(tok)
       /\ Opt.Type = "FlagCount"
       /\ Len(TokenName(tok)) > 1
       /\ \A k \in 1..Len(TokenName(tok)) : TokenName(tok)[k] = Opt.Short

\* C10: unknown-flag policy.  A flag token whose name resolves to no declared
\* flag fails the parse with UnknownFlag naming it when allowUnknown is false.
\* When allowUnknown is true it is stored under its dash-stripped name, the
\* value being the text after '=' or else the next token, verbatim; with no
\* next token the parse fails with InvalidFlagValue.
UnknownFlagLaw ==
    [][(FlagPosition /\ ~ResolvesToOpt(raw[i])) =>
        LET key == TokenName(raw[i])
            rhs == From(TrimLeftDash(raw[i]), Len(key) + 1)
        IN  IF ~allowUnknown
            THEN /\ pc' = "done"
                 /\ err'.kind = "UnknownFlag"
                 /\ err'.flag = key
                 /\ flags' = EmptyMap
            ELSE IF HasEq(raw[i])
            THEN err' = NoErr /\ flags' = Put(flags, key, rhs) /\ i' = i + 1
            ELSE IF i + 1 <= Len(raw)
            THEN err' = NoErr /\ flags' = Put(flags, key, raw[i + 1]) /\ i' = i + 2
            ELSE pc' = "done" /\ err'.kind = "InvalidFlagValue" /\ err'.flag = key]_vars

\* C10 witness: with unknown flags allowed and an Int flag declared, --unk 42
\* has stored the text 42 under unk
UnknownFlagLaw_Witness ==
    /\ pc = "done"
    /\ allowUnknown
    /\ Opt.Type = "FlagInt"
    /\ raw = <<Long(nUnk), <<"4", "2">>>>
    /\ err = NoErr
    /\ flags = Put(EmptyMap, nUnk, <<"4", "2">>)

\* the parse of the same tokens behind the one token --opt=v, with no
\* environment: what the command line makes of the value v
AsCliToken(v) ==
    parseArgs(<<[Opt EXCEPT !.Env = NoEnv]>>, <<WithEq(Long(nOpt), v)>> \o raw,
              allowUnknown, EnvUnset)

\* C13: env values are validated exactly as CLI values.  For a flag of any
\* type that the command line does not supply and whose environment variable
\* is set to v, the parse ends for the flag as the parse of --opt=v with the
\* variable unset does: the same stored value, or the same InvalidFlagValue
\* error.
EnvAsCliLaw ==
    (pc = "done" /\ CliOnly.err = NoErr /\ ~Has(CliOnly.flags, nOpt) /\ OptEnvSet) =>
        LET cli == AsCliToken(OptEnvVal)
        IN  \/ /\ err = NoErr
               /\ cli.err = NoErr
               /\ Has(flags, nOpt)
               /\ Has(cli.flags, nOpt)
               /\ flags[nOpt] = cli.flags[nOpt]
            \/ /\ err.kind = "InvalidFlagValue"
               /\ err = cli.err

\* C14: the validator accepts a value for a Bool flag if and only if the
\* value case-insensitively equals true, false, 1 or 0: the one-token stream
\* --opt=v stores v for such a value and fails with InvalidFlagValue carrying
\* the flag name and v for every other one.
BoolValidatorLaw ==
    (pc = "done" /\ Opt.Type = "FlagBool" /\ Len(raw) = 1 /\ IsEqOpt(raw[1])) =>
        LET v == EqOptValue(raw[1])
        IN  IF IsBoolText(v)
            THEN err = NoErr /\ flags = Put(EmptyMap, nOpt, v)
            ELSE err.kind = "InvalidFlagValue" /\ err.flag = nOpt /\ err.value = v

\* the tokens of a stream that stand before the first bare "--"
RECURSIVE BeforeSeparator(_)
BeforeSeparator(tokens) ==
    IF tokens = <<>> \/ tokens[1] = Separator THEN <<>>
    ELSE <<tokens[1]>> \o BeforeSeparator(Tail(tokens))

\* how many times a token gives the Count flag, in any form: as Occurrences
\* counts it for a bare token, and once for --opt=V or -o=V
OccurrencesAnyForm(tok) ==
    IF HasEq(tok)
    THEN IF HasPrefix(tok, <<"-">>) /\ ~TripleDash(tok) /\ TokenName(tok) \in {nOpt, <<Opt.Short>>}
         THEN 1 ELSE 0
    ELSE Occurrences(tok)

RECURSIVE SumOccurrencesAnyForm(_)
SumOccurrencesAnyForm(tokens) ==
    IF tokens = <<>> THEN 0
    ELSE OccurrencesAnyForm(tokens[1]) + SumOccurrencesAnyForm(Tail(tokens))

\* C15: a Count flag's value is synthesized by the parser.  After a parse
\* that succeeds with neither environment value nor default, the count read
\* back is the number of occurrences of the flag before any bare "--", an
\* occurrence of the form --opt=V counting once whatever V is.
CountSynthesizedLaw ==
    ( /\ pc = "done"
      /\ err = NoErr
      /\ Opt.Type = "FlagCount"
      /\ ~OptEnvSet
      /\ Opt.Default = <<>> ) =>
        Count(flags, nOpt) = SumOccurrencesAnyForm(BeforeSeparator(raw))

\* the least element of a non-empty set of numbers
Least(ks) == CHOOSE k \in ks : \A j \in ks : k <= j

\* the command Run has reached
Current == NodeAt(app.commands, target)

\* the children of a list of commands that a token names, by name or by alias
Named(cmds, t) ==
    { k \in 1..Len(cmds) :
        \/ cmds[k].Name = t
        \/ \E j \in 1..Len(cmds[k].Aliases) : cmds[k].Aliases[j] = t }

\* a token that begins with a dash
FlagLike(t) == HasPrefix(t, <<"-">>)

\* no help token stands in a token list
NoHelpToken(tokens) == \A k \in 1..Len(tokens) : tokens[k] \notin HelpTokens

\* C11: resolution depth law.  At every level a token that is a child's name
\* and a token that is one of its aliases descend to that same child (the
\* first that the token names) and are consumed; below the top level, a token
\* without a leading dash that names no child ends the descent and stays, with
\* everything after it, in the tokens of the command reached.  That token is
\* no error: when the command is executed, it is the first positional argument
\* of its own handler, and when nothing but plain words follow it and the
\* command has a handler, the command is executed with all of them.
ResolutionDepthLaw ==
    /\ [][ /\ (rpc = "entry" /\ call.op = "Run" /\ call.args # <<>>
                 /\ call.args[1] \notin HelpTokens
                 /\ Named(app'.commands, call.args[1]) # {}) =>
                    /\ target' = <<Least(Named(app'.commands, call.args[1]))>>
                    /\ cmdArgs' = Tail(call.args)
           /\ (rpc = "resolve" /\ cmdArgs # <<>> /\ ~FlagLike(cmdArgs[1])) =>
                    IF Named(Current.SubCommands, cmdArgs[1]) # {}
                    THEN /\ target' = Append(target,
                                         Least(Named(Current.SubCommands, cmdArgs[1])))
                         /\ cmdArgs' = Tail(cmdArgs)
                         /\ rpc' = "resolve"
                    ELSE /\ target' = target
                         /\ cmdArgs' = cmdArgs
                         /\ rpc' = "help" ]_vars
    /\ []( (rpc = "returned" /\ target # <<>> /\ cmdArgs # <<>> /\ ~FlagLike(cmdArgs[1])) =>
              /\ Named(Current.SubCommands, cmdArgs[1]) = {}
              /\ executed # <<>> =>
                    /\ Len(executed) = 1
                    /\ executed[1].path = target
                    /\ executed[1].args # <<>>
                    /\ executed[1].args[1] = cmdArgs[1]
              /\ ( /\ Current.Execute = "user"
                   /\ \A k \in 1..Len(cmdArgs) : ~FlagLike(cmdArgs[k]) ) =>
                    /\ ret = NoErr
                    /\ executed = <<Context(target, Current, cmdArgs, EmptyMap)>> )

\* C11 witness: db m up has reached the node up through the alias m, and
\* up's handler has run
ResolutionDepthLaw_Witness ==
    /\ rpc = "returned"
    /\ call.op = "Run"
    /\ call.args = <<nDb, nM, nUp>>
    /\ target = <<1, 1, 1>>
    /\ Current.Name = nUp
    /\ cmdArgs = <<>>
    /\ Len(executed) = 1
    /\ executed[1].command.Name = nUp

\* a help token stands in a token list before any bare "--"
HelpBefore(tokens) ==
    \E k \in 1..Len(tokens) :
        /\ tokens[k] \in HelpTokens
        /\ \A j \in 1..(k - 1) : tokens[j] # Separator

\* help tokens stand in a token list, all of them after a bare "--"
HelpOnlyAfter(tokens) ==
    /\ ~HelpBefore(tokens)
    /\ \E k \in 1..Len(tokens) : tokens[k] \in HelpTokens

\* the position of the first bare "--" of a token list
FirstSeparator(tokens) == Least({ k \in 1..Len(tokens) : tokens[k] = Separator })

\* the errors parseArgs returns for a token
TokenErrors == {"UnknownFlag", "InvalidFlagValue"}

\* the token is a flag in bare-name form that takes the next token as its
\* value under the flag list fl: a String, Int, Float or StringSlice flag, or a
\* flag that is not declared
TakesNext(fl, tok) ==
    LET name == TrimLeftDash(tok)
        ks == { k \in 1..Len(fl) :
                  \/ fl[k].Name = name
                  \/ Len(name) = 1 /\ fl[k].Short # NoShort /\ fl[k].Short = name[1] }
        bundle == /\ Len(name) > 1
                  /\ \A k \in 1..Len(name) : name[k] = name[1]
                  /\ \E k \in 1..Len(fl) : fl[k].Short = name[1] /\ fl[k].Type = "FlagCount"
    IN  /\ FlagLike(tok)
        /\ tok # Separator
        /\ ~TripleDash(tok)
        /\ ~HasEq(tok)
        /\ IF ks # {} THEN fl[Least(ks)].Type \notin {"FlagBool", "FlagCount"}
           ELSE ~bundle

\* the first bare "--" of the remaining tokens does not follow a flag that
\* takes it as its value
SeparatorNotAValue ==
    LET k == FirstSeparator(cmdArgs)
    IN  k = 1 \/ ~TakesNext(cmd, cmdArgs[k - 1])

\* what C12 says of a help token before any bare "--": help for the command
\* reached, no handler invoked, no error
HelpShortCircuit ==
    (rpc = "returned" /\ target # <<>> /\ HelpBefore(cmdArgs)) =>
        /\ Len(output) = 1
        /\ output[1].kind = "help"
        /\ output[1].name = Current.Name
        /\ output[1] = printCommandHelp(app, Current)
        /\ executed = <<>>
        /\ ret = NoErr

\* what C12 says of help tokens that stand only after a bare "--", for a
\* command with a handler: Run goes on to the parser, which takes them for
\* positional arguments, so that the handler gets them, unless a token before
\* the "--" fails the parse
HelpAfterSeparator ==
    /\ Len(executed) <= 1
    /\ executed # <<>> =>
          /\ executed[1].path = target
          /\ \A k \in 1..Len(cmdArgs) :
                cmdArgs[k] \in HelpTokens =>
                    \E j \in 1..Len(executed[1].args) : executed[1].args[j] = cmdArgs[k]
    /\ executed = <<>> =>
          /\ output = <<>>
          /\ ret.kind \in TokenErrors
          /\ i < FirstSeparator(cmdArgs)

NoHandlerLaw ==
    (rpc = "returned" /\ target # <<>> /\ Current.Execute = "nil") =>
        /\ output = <<printCommandHelp(app, Current)>>
        /\ output[1].kind = "help"
        /\ output[1].name = Current.Name
        /\ ret = NoErr
        /\ executed = <<>>
        /\ pc = "idle"

\* C16 witness: db up, with no handler on db, has written db's help though up
\* and a flag remain
NoHandlerLaw_Witness ==
    /\ rpc = "returned"
    /\ call.op = "Run"
    /\ call.args = <<nDb, nUp, Long(nOpt)>>
    /\ Current.Name = nDb
    /\ Current.Execute = "nil"
    /\ cmdArgs = <<nUp, Long(nOpt)>>
    /\ output[1].kind = "help"
    /\ output[1].name = nDb
    /\ executed = <<>>

\* the effective flag set of command c: its own flags, followed by the global
\* flags whose name is the name of none of them
EffectiveFlags(a, c) ==
    c.Flags \o SelectSeq(a.globalFlags,
                         LAMBDA g : \A k \in 1..Len(c.Flags) : c.Flags[k].Name # g.Name)

\* C17: effective flag set.  The flag list Run hands to the parser for the
\* command it has resolved (mergeGlobalFlags) and the flag list the completion
\* synthesizer uses for that command (completionFlagList) are both the
\* command's own flags followed by exactly the global flags that no command
\* flag shadows by name.
EffectiveFlagLaw ==
    (rpc = "parse") =>
        /\ completionFlagList(app, Current.Flags) = EffectiveFlags(app, Current)
        /\ cmd = EffectiveFlags(app, Current)
        /\ cmd = completionFlagList(app, Current.Flags)

RECURSIVE Paths(_)
\* the paths of indices to every command of a list and of its subtrees
Paths(cmds) ==
    UNION { { <<k>> } \cup { <<k>> \o p : p \in Paths(cmds[k].SubCommands) } :
              k \in 1..Len(cmds) }

RECURSIVE NamesOf(_, _)
\* the names of the commands along a path: the canonical path without ROOT
NamesOf(cmds, path) ==
    IF path = <<>> THEN <<>>
    ELSE <<cmds[path[1]].Name>> \o NamesOf(cmds[path[1]].SubCommands, Tail(path))

\* the elements of a sequence
Range(seq) == { seq[k] : k \in 1..Len(seq) }

\* GenerateCompletion has written a script
ScriptWritten ==
    /\ rpc = "returned"
    /\ call.op = "GenerateCompletion"
    /\ ret = NoErr
    /\ Len(output) = 1
    /\ output[1].kind = "script"

\* the candidates the written script offers at the command a path leads to
CandidatesAt(path) == Range(Candidates(output[1].script, NamesOf(app.commands, path)))

\* C18: completion content law.  For each of the four shells and for every
\* command of the tree at any depth, the built-in ones included, the script
\* offers at that command the name and every alias of each of its children
\* and the long form of each of its effective flags: its own flags and the
\* global flags that none of them shadows.
ContentLaw ==
    ScriptWritten =>
        \A path \in Paths(app.commands) :
            LET c == NodeAt(app.commands, path)
                fl == EffectiveFlags(app, c)
            IN  /\ \A k \in 1..Len(c.SubCommands) :
                      /\ c.SubCommands[k].Name \in CandidatesAt(path)
                      /\ \A j \in 1..Len(c.SubCommands[k].Aliases) :
                            c.SubCommands[k].Aliases[j] \in CandidatesAt(path)
                /\ \A k \in 1..Len(fl) : (<<"-", "-">> \o fl[k].Name) \in CandidatesAt(path)

\* C18 witness: the fish script offers, after db migrate, the children up and
\* down, migrate's own --dry and the global --verbose and --opt
ContentLaw_Witness ==
    /\ ScriptWritten
    /\ call.shell = Fish
    /\ app.globalFlags = VerboseAndOpt
    /\ { nUp, nDown, Long(nDry), Long(nVerbose), Long(nOpt) } \subseteq CandidatesAt(<<1, 1>>)
    /\ nM \in CandidatesAt(<<1>>)

\* C19: for each of the four shells and for every command, the script offers
\* the short form -x of every effective flag of the command that declares a
\* short character.
ShortFormLaw ==
    ScriptWritten =>
        \A path \in Paths(app.commands) :
            LET fl == EffectiveFlags(app, NodeAt(app.commands, path))
            IN  \A k \in 1..Len(fl) :
                    fl[k].Short # NoShort => <<"-", fl[k].Short>> \in CandidatesAt(path)

\* Run has left its resolver loop with a command
Resolved == rpc \in {"help", "dispatch", "parse", "returned"} /\ call.op = "Run" /\ target # <<>>

\* the canonical path of the command a path of indices leads to
CanonicalPath(cmds, path) == Join(<<ROOT>> \o NamesOf(cmds, path), <<"/">>)

\* C20: the path resolver of the Bash and of the PowerShell script resolves
\* the words before the cursor to the canonical path of the command Run
\* resolves for the same tokens.
ResolverLaw ==
    Resolved =>
        /\ bashResolve(generateBash(app), ROOT, call.args) = CanonicalPath(app.commands, target)
        /\ poshResolve(generatePowerShell(app), ROOT, call.args) =
               CanonicalPath(app.commands, target)

\* the four identifiers GenerateCompletion knows, as the texts a caller passes
ShellTexts ==
    { <<"b", "a", "s", "h">>, <<"z", "s", "h">>, <<"f", "i", "s", "h">>,
      <<"p", "o", "w", "e", "r", "s", "h", "e", "l", "l">> }

\* GenerateCompletion, called on its own, has returned
Generated == rpc = "returned" /\ call.op = "GenerateCompletion"

\* C21: GenerateCompletion writes a script, the one of the shell asked for,
\* exactly for the identifiers bash, zsh, fish and powershell compared with
\* their case; for any other identifier it returns an UnsupportedShell error
\* that names the identifier and writes nothing.
UnsupportedShellLaw ==
    Generated =>
        IF call.shell \in ShellTexts
        THEN /\ ret = NoErr
             /\ Len(output) = 1
             /\ output[1].kind = "script"
             /\ output[1].script.shell = call.shell
        ELSE /\ ret.kind = "UnsupportedShell"
             /\ ret.value = call.shell
             /\ output = <<>>

\* C21 witness: Bash, with a capital, is refused
UnsupportedShellLaw_Witness ==
    /\ Generated
    /\ call.shell = nBashUpper
    /\ EqualFold(call.shell, Bash)
    /\ ret.kind = "UnsupportedShell"
    /\ ret.value = nBashUpper
    /\ output = <<>>

\* the names of the commands registered at the top level
TopNames(a) == [k \in 1..Len(a.commands) |-> a.commands[k].Name]

\* AddCommand is about to run on the command call.command
Adding == rpc = "entry" /\ call.op = "AddCommand"

\* what is wrong with the command handed to AddCommand
NamelessCommand == call.command.Name = <<>>

NamelessFlag == \E k \in 1..Len(call.command.Flags) : call.command.Flags[k].Name = <<>>

AlreadyRegistered == \E k \in 1..Len(app.commands) : app.commands[k].Name = call.command.Name

\* C22: AddCommand returns InvalidName for a command without a name or with a
\* flag without a name, DuplicateCommand for a well-named command whose name
\* a registered command has, and leaves the command list as it was in both
\* cases; otherwise it returns nil and the list is the old one with the
\* command as its last element.
AddCommandLaw ==
    [][Adding =>
          /\ rpc' = "returned"
          /\ (NamelessCommand \/ NamelessFlag) =>
                 ret'.kind = "InvalidName" /\ app'.commands = app.commands
          /\ (AlreadyRegistered /\ ~NamelessCommand /\ ~NamelessFlag) =>
                 ret'.kind = "DuplicateCommand" /\ app'.commands = app.commands
          /\ (~AlreadyRegistered /\ ~NamelessCommand /\ ~NamelessFlag) =>
                 /\ ret' = NoErr
                 /\ Len(app'.commands) = Len(app.commands) + 1
                 /\ app'.commands[Len(app'.commands)] = call.command
                 /\ SubSeq(app'.commands, 1, Len(app.commands)) = app.commands]_vars

\* C22 witness: a second db is refused as a duplicate after a first one, a
\* built-in help and a built-in completion were registered
AddCommandLaw_Witness ==
    /\ rpc = "returned"
    /\ call.op = "AddCommand"
    /\ call.command = UserDb
    /\ ret.kind = "DuplicateCommand"
    /\ TopNames(app) = <<nHelp, nCompletion, nDb>>

\* the positions of the built-in help, or completion, command in the list
BuiltIns(a, which) == { k \in 1..Len(a.commands) : a.commands[k].Execute = which }

\* exactly one built-in help and one built-in completion command
BuiltInsOnce(a) ==
    /\ Cardinality(BuiltIns(a, "help")) = 1
    /\ Cardinality(BuiltIns(a, "completion")) = 1

\* Run or GenerateCompletion has been entered
Entered == call.op \in {"Run", "GenerateCompletion"} /\ rpc # "entry"

\* C23: from the first step of the first Run or GenerateCompletion call on,
\* whatever calls follow on the same App, the command list holds exactly one
\* built-in help command and exactly one built-in completion command.
BuiltInsOnceLaw ==
    /\ [](Entered => BuiltInsOnce(app))
    /\ [][BuiltInsOnce(app) => BuiltInsOnce(app')]_vars

\* C23 witness: a Run returns on an App whose built-in commands an earlier
\* Run or GenerateCompletion had registered before db was added
BuiltInsOnceLaw_Witness ==
    /\ rpc = "returned"
    /\ call.op = "Run"
    /\ TopNames(app) = <<nHelp, nCompletion, nDb>>
    /\ BuiltIns(app, "help") = {1}
    /\ BuiltIns(app, "completion") = {2}

\* C28: at every moment of the life of an App, whatever AddCommand, Run and
\* GenerateCompletion calls were made on it, no two top-level commands have
\* the same name.
UniqueTopNamesLaw ==
    \A j \in 1..Len(app.commands), k \in 1..Len(app.commands) :
        j # k => app.commands[j].Name # app.commands[k].Name

\* the error a token of FaultTokens deserves when it is read as a flag
TokenFault(tok) ==
    CASE tok = Long(nUnk) -> Errorf("UnknownFlag", nUnk, <<>>, "")
      [] tok = WithEq(Long(nOpt), BadInt) ->
            Errorf("InvalidFlagValue", nOpt, BadInt, "expected int")
      [] HasPrefix(tok, <<"-", "-", "-">>) -> Errorf("InvalidFlagValue", <<>>, tok, "malformed")
      [] OTHER -> NoErr

\* the positions of the faulty tokens of a stream, before any bare "--"
FaultsOf(tokens) ==
    { k \in 1..Len(BeforeSeparator(tokens)) : TokenFault(tokens[k]) # NoErr }

\* the stream gives flag n on the command line, as --n=V
GivenOnCli(tokens, n) ==
    \E k \in 1..Len(BeforeSeparator(tokens)) : HasPrefix(tokens[k], WithEq(Long(n), <<>>))

\* the one error an invocation deserves: that of its leftmost faulty token,
\* else that of the environment value of --opt, else that of the missing
\* --req, else none
FirstFault(tokens, env) ==
    IF FaultsOf(tokens) # {} THEN TokenFault(tokens[Least(FaultsOf(tokens))])
    ELSE IF ~GivenOnCli(tokens, nOpt) /\ env[OptEnv].set /\ env[OptEnv].val = BadInt
    THEN Errorf("InvalidFlagValue", nOpt, BadInt, "expected int")
    ELSE IF ~GivenOnCli(tokens, nReq) THEN Errorf("RequiredFlag", nReq, <<>>, "")
    ELSE NoErr

\* Run has returned
RunReturned == rpc = "returned" /\ call.op = "Run"

\* C24: fail-fast.  Run on tokens with any number of faults returns the one
\* error of the leftmost faulty token; without a faulty token, the error of
\* an environment value that fails validation; without that, RequiredFlag.
\* With an error, parseArgs has returned an empty positional list and an
\* empty flag map, and no Execute handler was invoked.
FailFastLaw ==
    RunReturned =>
        LET expected == FirstFault(raw, environ)
        IN  /\ raw = SubSeq(call.args, 3, Len(call.args))
            /\ err = expected
            /\ ret = expected
            /\ expected # NoErr => positional = <<>> /\ flags = EmptyMap /\ executed = <<>>
            /\ expected = NoErr => Len(executed) = 1

\* C24 witness: an unknown flag before a malformed token, with a bad
\* environment value and the required flag missing: UnknownFlag alone
FailFastLaw_Witness ==
    /\ RunReturned
    /\ raw = <<<<"p">>, Long(nUnk), <<"-", "-", "-", "o", "p", "t">>>>
    /\ environ = EnvSet(BadInt)
    /\ ret.kind = "UnknownFlag"
    /\ positional = <<>>
    /\ flags = EmptyMap
    /\ executed = <<>>

\* the positions of the arguments of Run, after the first, that begin with
\* '-'; the first argument is looked up among the top-level commands
FlagLikeAt(args) == { k \in 2..Len(args) : HasPrefix(args[k], <<"-">>) }

\* C25: flags terminate subcommand matching.  When an argument of Run after
\* the one that names the top-level command begins with '-', the command
\* resolved lies less deep than the first such argument, even where that
\* argument or a later one is the name or an alias of a child; the arguments
\* from there on, the flag-like one included, are left for the parser of the
\* command reached, unchanged and in their order.
FlagsEndDescentLaw ==
    (Resolved /\ FlagLikeAt(call.args) # {}) =>
        /\ Len(target) < Least(FlagLikeAt(call.args))
        /\ cmdArgs = SubSeq(call.args, Len(target) + 1, Len(call.args))
        /\ (pc # "idle") => raw = cmdArgs /\ cmd = mergeGlobalFlags(app, Current)

\* C25 witness: after db --opt, given as --opt m up, m is an alias and --opt
\* is another alias of db's child migrate, yet db is the command resolved,
\* --opt is parsed as db's Bool flag, and m and up are positional arguments
FlagsEndDescentLaw_Witness ==
    /\ RunReturned
    /\ app.commands[1].SubCommands[1].Aliases = <<nM, Long(nOpt)>>
    /\ call.args = <<nDb, Long(nOpt), nM, nUp>>
    /\ target = <<1>>
    /\ raw = <<Long(nOpt), nM, nUp>>
    /\ positional = <<nM, nUp>>
    /\ Has(flags, nOpt)
    /\ Len(executed) = 1
    /\ executed[1].command.Name = nDb

\* the types whose Context accessor parses the stored text
ParsedTypes == {"FlagBool", "FlagInt", "FlagFloat"}

\* Context.Bool, Context.Int and Context.Float return no error for the text
AccessorAccepts(t, v) ==
    CASE t = "FlagBool" -> ParseBoolOK(v)
      [] t = "FlagInt" -> ParseIntOK(v)
      [] t = "FlagFloat" -> ParseFloatOK(v)
      [] OTHER -> TRUE

\* C26: after a successful parse, the value stored for a declared Bool, Int
\* or Float flag is one that validateFlagValue accepts for the type of the
\* flag, and the typed accessor of the Context returns it without an error.
StoredValuesLaw ==
    (pc = "done" /\ err = NoErr /\ Opt.Type \in ParsedTypes /\ Has(flags, nOpt)) =>
        /\ validateFlagValue(Opt, flags[nOpt]) = NoErr
        /\ AccessorAccepts(Opt.Type, flags[nOpt])

\* the token loop stands on a flag token in bare-name form that takes a value
\* (a declared String, Int, Float or StringSlice flag, or an undeclared flag
\* where those are permitted) and a further token follows
BareBeforeToken ==
    /\ FlagPosition
    /\ i < Len(raw)
    /\ TakesNext(cmd, raw[i])
    /\ (ResolvesToOpt(raw[i]) \/ allowUnknown)

\* the value a flag stores for the text v, given what it had stored
StoredAfter(name, v) ==
    IF ResolvesToOpt(raw[i]) /\ Opt.Type = "FlagStringSlice"
    THEN IF Has(flags, name) THEN flags[name] \o <<sliceSep>> \o commaToSliceSep(v)
         ELSE commaToSliceSep(v)
    ELSE v

SameCommands(a, b) ==
    /\ Len(b.commands) >= Len(a.commands)
    /\ \A k \in 1..Len(a.commands) : b.commands[k] = a.commands[k]

\* Run has called parseArgs on the command resolved
Parsing == call.op = "Run" /\ rpc \in {"parse", "returned"} /\ pc # "idle"

\* C29: Run only reads the command tree.  No step of Run changes a command
\* that is registered: its Flags, Aliases and SubCommands stay what they
\* were, and only the built-in commands are added behind them.  The list of
\* flags the parser works on is the merged one, the command's own flags
\* followed by the global flags none of them shadows, and the command the
\* Context of Execute refers to is the command of the tree, with its own
\* flags alone.
ReadOnlyLaw ==
    /\ [][call.op = "Run" => SameCommands(app, app')]_vars
    /\ [](Parsing =>
            /\ SubSeq(cmd, 1, Len(Current.Flags)) = Current.Flags
            /\ \A k \in (Len(Current.Flags) + 1)..Len(cmd) :
                   \E g \in 1..Len(app.globalFlags) : cmd[k] = app.globalFlags[g]
            /\ \A k \in 1..Len(executed) : executed[k].command = Current)

\* C29 witness: db migrate under the global flags --verbose and --opt: the
\* parser has worked on --dry, --verbose and --opt, the handler of migrate
\* was given migrate with --dry alone, and db still declares --opt alone
ReadOnlyLaw_Witness ==
    /\ RunReturned
    /\ app.globalFlags = VerboseAndOpt
    /\ target = <<1, 1>>
    /\ [k \in 1..Len(cmd) |-> cmd[k].Name] = <<nDry, nVerbose, nOpt>>
    /\ Len(executed) = 1
    /\ executed[1].command.Name = nMigrate
    /\ [k \in 1..Len(executed[1].command.Flags) |-> executed[1].command.Flags[k].Name] = <<nDry>>
    /\ [k \in 1..Len(app.commands[1].Flags) |-> app.commands[1].Flags[k].Name] = <<nOpt>>

\* C30: Run terminates.  Each iteration of the resolver loop that goes on
\* takes exactly the first of the remaining tokens and goes one level down;
\* each iteration of the token loop of parseArgs either fails, which ends
\* the parse, or advances the index by 1 or 2; the index never passes the
\* end of the tokens; and every call reaches its return, with or without an
\* error.
TerminationLaw ==
    /\ [][(rpc = "resolve" /\ rpc' = "resolve") =>
              /\ cmdArgs # <<>>
              /\ cmdArgs' = Tail(cmdArgs)
              /\ Len(target') = Len(target) + 1]_vars
    /\ [][InLoop =>
              \/ err' # NoErr /\ pc' = "done"
              \/ err' = NoErr /\ pc' = "scan" /\ i' \in {i + 1, i + 2}]_vars
    /\ [](i <= Len(raw) + 1)
    /\ <>(rpc = "returned")

\* C30 witness: db m --opt up under a global String flag --opt: two resolver
\* steps, one parser step of 2 that ends right behind the last token, and
\* the return from the handler of migrate
TerminationLaw_Witness ==
    /\ RunReturned
    /\ call.args = <<nDb, nM, Long(nOpt), nUp>>
    /\ target = <<1, 1>>
    /\ raw = <<Long(nOpt), nUp>>
    /\ i = 3
    /\ flags[nOpt] = nUp
    /\ ret = NoErr
    /\ Len(executed) = 1

====
